---- MODULE Spec2Model ----
(***************************************************************************)
(* A model of the cherry command-line parser (src/src/lib.rs and           *)
(* src/src/action.rs): the Action registry, the Request accumulator, the   *)
(* unescape pass, the resolver loop of Cherry::parse, the scanner of       *)
(* Cherry::parse_str, the insert methods that build the schema, and        *)
(* Action::run.                                                            *)
(*                                                                         *)
(* A Rust String is modelled as a sequence of characters; a character is   *)
(* a TLA+ string naming it ("a", "-", "U+00E9").  An Option<T> is the      *)
(* empty set (None) or a singleton (Some).  A HashMap is a function whose  *)
(* DOMAIN is its key set.  A Result is a record [ok, value].               *)
(***************************************************************************)
EXTENDS Integers, Sequences, FiniteSets, TLC

VARIABLES
    cherry,      \* the Cherry object: [actions: keyword -> Action]
    pc,          \* position of the running parse: "start", "loop", "done"
    action,      \* `action` of Cherry::parse: a reference into the registry
    request,     \* `request` of Cherry::parse
    child_path,  \* `child_path` of Cherry::parse
    result,      \* what parse returned: "none" (still running), "Ok", "Err"
    consumed,    \* the tokens command.next() has yielded so far, in order
    roles,       \* how each consumed token was used by the resolver
    ran,         \* the Action::run call made with the returned Request, if any
    esc_pc,      \* position of the escape run: "in", "protected", "out"
    esc_orig,    \* the token the escape run started from
    esc_in,      \* the string handed to Cherry::escape
    esc_out,     \* what Cherry::escape returned
    scan_pc,     \* position of the running parse_str: "off", "scan", "done"
    parts,       \* `parts` of Cherry::parse_str
    build,       \* `build` of Cherry::parse_str
    quote,       \* `quote` of Cherry::parse_str
    old_quote,   \* `old_quote` of Cherry::parse_str
    scanned,     \* the characters chars.next() has yielded so far, in order
    opened,      \* where in `scanned` the active quote was opened, else 0
    closed_at,   \* where in `scanned` a quote was last closed, else 0
    draft,       \* the Action a caller is building with insert_field/insert_flag
    calls,       \* the calls made so far: [kind, item, ok] and, in the build runs, message
    peer         \* the locals of a second parse running on the same registry

vars == <<cherry, pc, action, request, child_path, result, consumed, roles, ran,
          esc_pc, esc_orig, esc_in, esc_out,
          scan_pc, parts, build, quote, old_quote, scanned, opened, closed_at,
          draft, calls, peer>>

parse_vars == <<cherry, pc, action, request, child_path, result, consumed, roles, ran>>

escape_vars == <<esc_pc, esc_orig, esc_in, esc_out>>

scan_vars == <<scan_pc, parts, build, quote, old_quote, scanned, opened, closed_at>>

schema_vars == <<draft, calls>>

(***************************************************************************)
(* Bounds of the model.                                                    *)
(***************************************************************************)
\* The longest command (selector included) the token iterator yields.
MaxTokens == 5

\* The longest string handed to Cherry::escape in the escape runs.
MaxLen == 4

\* The longest raw string handed to Cherry::parse_str.
MaxChars == 5

\* The most insert calls a caller makes while building a registry.
MaxInserts == 3

\* The most tokens each of two parses running side by side consumes.
MaxPairTokens == 3

(***************************************************************************)
(* Characters and strings.                                                 *)
(***************************************************************************)
BACKSLASH == "\\"

SQUOTE == "'"

DQUOTE == "\""

HYPHEN == "-"

SPACE == " "

\* Two characters whose UTF-8 encoding is two bytes long, and U+FFFD, the
\* replacement character String::from_utf8_lossy yields for an invalid byte.
E_ACUTE == "U+00E9"

U_UMLAUT == "U+00FC"

REPLACEMENT == "U+FFFD"

\* char::len_utf8 for the characters of the model.
Utf8Len(c) ==
    IF c \in {E_ACUTE, U_UMLAUT} THEN 2
    ELSE IF c = REPLACEMENT THEN 3
    ELSE 1

\* str::len: the length in bytes.
RECURSIVE ByteLen(_)
ByteLen(s) == IF s = <<>> THEN 0 ELSE Utf8Len(Head(s)) + ByteLen(Tail(s))

\* n copies of the character c.
RECURSIVE Repeat(_, _)
Repeat(c, n) == IF n = 0 THEN <<>> ELSE <<c>> \o Repeat(c, n - 1)

\* stripped.bytes() followed by String::from_utf8_lossy(&[byte]) on each byte:
\* one one-character key per byte, the replacement character for every byte
\* of a multi-byte character.
RECURSIVE LossyBytes(_)
LossyBytes(s) ==
    IF s = <<>> THEN <<>>
    ELSE (IF Utf8Len(Head(s)) = 1 THEN <<Head(s)>>
          ELSE Repeat(REPLACEMENT, Utf8Len(Head(s)))) \o LossyBytes(Tail(s))

\* str::starts_with.
StartsWith(s, prefix) ==
    /\ Len(s) >= Len(prefix)
    /\ SubSeq(s, 1, Len(prefix)) = prefix

\* The rest of s after its first n characters.
Drop(s, n) == SubSeq(s, n + 1, Len(s))

\* str::replace: every non-overlapping match of `from`, left to right.
RECURSIVE Replace(_, _, _)
Replace(s, from, to) ==
    IF Len(s) < Len(from) THEN s
    ELSE IF StartsWith(s, from) THEN to \o Replace(Drop(s, Len(from)), from, to)
    ELSE <<Head(s)>> \o Replace(Tail(s), from, to)

\* Fault variant: the pass for the backslash pair is left out.
escape_without_backslash(value) ==
    Replace(Replace(Replace(value,
        <<BACKSLASH, SQUOTE>>, <<SQUOTE>>),
        <<BACKSLASH, DQUOTE>>, <<DQUOTE>>),
        <<BACKSLASH, HYPHEN>>, <<HYPHEN>>)

\* Fault variant: the backslash pair is rewritten first, not last.
escape_backslash_first(value) ==
    Replace(Replace(Replace(Replace(value,
        <<BACKSLASH, BACKSLASH>>, <<BACKSLASH>>),
        <<BACKSLASH, SQUOTE>>, <<SQUOTE>>),
        <<BACKSLASH, DQUOTE>>, <<DQUOTE>>),
        <<BACKSLASH, HYPHEN>>, <<HYPHEN>>)

\* Cherry::escape: four replace passes, in this order.
escape(value) ==
    Replace(Replace(Replace(Replace(value,
        <<BACKSLASH, SQUOTE>>, <<SQUOTE>>),
        <<BACKSLASH, DQUOTE>>, <<DQUOTE>>),
        <<BACKSLASH, HYPHEN>>, <<HYPHEN>>),
        <<BACKSLASH, BACKSLASH>>, <<BACKSLASH>>)

(***************************************************************************)
(* Option, Result, HashMap.                                                *)
(***************************************************************************)
None == {}

Some(v) == {v}

Unwrap(o) == CHOOSE v \in o : TRUE

Ok(v) == [ok |-> TRUE, value |-> v]

Err(message) == [ok |-> FALSE, value |-> message]

\* Every parse failure carries this placeholder message.
TodoHelp == "Todo: Help."

EmptyMap == <<>>

\* HashMap::insert.
Put(map, key, v) ==
    [k \in (DOMAIN map) \cup {key} |-> IF k = key THEN v ELSE map[k]]

\* HashMap::get.
Get(map, key) == IF key \in DOMAIN map THEN Some(map[key]) ELSE None

(***************************************************************************)
(* Validation predicates (the filters of Arguments and Fields).            *)
(***************************************************************************)
AlnumBytes ==
    {"a", "b", "c", "d", "e", "f", "g", "h", "i", "j", "k", "l", "m",
     "n", "o", "p", "q", "r", "s", "t", "u", "v", "w", "x", "y", "z",
     "A", "B", "C", "D", "E", "F", "G", "H", "I", "J", "K", "L", "M",
     "N", "O", "P", "Q", "R", "S", "T", "U", "V", "W", "X", "Y", "Z",
     "0", "1", "2", "3", "4", "5", "6", "7", "8", "9"}

\* validate::is_alphanumeric: every byte is an ASCII letter or digit.
is_alphanumeric(value) ==
    \A i \in 1..Len(value) : Utf8Len(value[i]) = 1 /\ value[i] \in AlnumBytes

\* An absent filter, and the filters the registry of the model uses.
NoFilter == None

AlnumFilter == Some("is_alphanumeric")

\* callback(value) for a stored filter.
CallFilter(callback, value) ==
    IF callback = "is_alphanumeric" THEN is_alphanumeric(value) ELSE TRUE

(***************************************************************************)
(* The schema: Argument, Field, Flag, Action and the Cherry registry.      *)
(***************************************************************************)
\* struct Argument: title and the optional filter.
Argument(title, filter) == [title |-> title, filter |-> filter]

\* struct Field: title, optional short, optional default, optional filter.
Field(title, short, default, filter) ==
    [title |-> title, short |-> short, default |-> default, filter |-> filter]

\* struct Flag: title and optional short.
Flag(title, short) == [title |-> title, short |-> short]

\* Argument::new.
Argument_new(title) ==
    IF title = <<>> THEN Err("Argument must have a non-empty title.")
    ELSE Ok(Argument(title, None))

\* Field::new.
Field_new(title) ==
    IF title = <<>> THEN Err("Field must have a non-empty title.")
    ELSE Ok(Field(title, None, None, None))

\* Flag::new.
Flag_new(title) ==
    IF title = <<>> THEN Err("Flag must have a non-empty title.")
    ELSE Ok(Flag(title, None))

\* Action::new.
Action_new(keyword) ==
    IF keyword = <<>> THEN Err("Action must have a non-empty keyword.")
    ELSE Ok([keyword |-> keyword, description |-> None, arguments |-> <<>>,
             fields |-> EmptyMap, flags |-> EmptyMap, then |-> None,
             children |-> EmptyMap])

\* Action::description.
Action_description(self, description) == [self EXCEPT !.description = Some(description)]

\* Action::then.  A callback is modelled by its name.
Action_then(self, then) == [self EXCEPT !.then = Some(then)]

\* PartialEq for Action: keyword and description.
Action_eq(self, other) ==
    self.keyword = other.keyword /\ self.description = other.description

\* Action::insert_argument.
Action_insert_argument(self, argument) ==
    IF argument.title = <<>> THEN Err("Argument must have a non-empty title.")
    ELSE Ok([self EXCEPT !.arguments = Append(@, argument)])

\* Fault variant: the short of the Field is not looked up among the Flags.
Action_insert_field_flags_unchecked(self, field) ==
    IF field.title = <<>> THEN Err("Field must have a non-empty title.")
    ELSE IF field.title \in DOMAIN self.fields THEN Err("already contains a Field")
    ELSE IF field.title \in DOMAIN self.flags THEN Err("already contains a Flag")
    ELSE IF field.short # None /\ <<Unwrap(field.short)>> \in DOMAIN self.fields
        THEN Err("already contains a Field with short tag")
    ELSE LET shorted == IF field.short # None
                        THEN Put(self.fields, <<Unwrap(field.short)>>, field)
                        ELSE self.fields
         IN Ok([self EXCEPT !.fields = Put(shorted, field.title, field)])

\* Fault variant: the title of the Field is looked at after the collisions.
Action_insert_field_collisions_first(self, field) ==
    IF field.title \in DOMAIN self.fields THEN Err("already contains a Field")
    ELSE IF field.title \in DOMAIN self.flags THEN Err("already contains a Flag")
    ELSE IF field.short # None /\ <<Unwrap(field.short)>> \in DOMAIN self.fields
        THEN Err("already contains a Field with short tag")
    ELSE IF field.short # None /\ <<Unwrap(field.short)>> \in DOMAIN self.flags
        THEN Err("already contains a Flag with short tag")
    ELSE IF field.title = <<>> THEN Err("Field must have a non-empty title.")
    ELSE LET shorted == IF field.short # None
                        THEN Put(self.fields, <<Unwrap(field.short)>>, field)
                        ELSE self.fields
         IN Ok([self EXCEPT !.fields = Put(shorted, field.title, field)])

\* Action::insert_field: the Field is stored under its title and, when it has
\* one, under its short as a second key.
Action_insert_field(self, field) ==
    IF field.title = <<>> THEN Err("Field must have a non-empty title.")
    ELSE IF field.title \in DOMAIN self.fields THEN Err("already contains a Field")
    ELSE IF field.title \in DOMAIN self.flags THEN Err("already contains a Flag")
    ELSE IF field.short # None /\ <<Unwrap(field.short)>> \in DOMAIN self.fields
        THEN Err("already contains a Field with short tag")
    ELSE IF field.short # None /\ <<Unwrap(field.short)>> \in DOMAIN self.flags
        THEN Err("already contains a Flag with short tag")
    ELSE LET shorted == IF field.short # None
                        THEN Put(self.fields, <<Unwrap(field.short)>>, field)
                        ELSE self.fields
         IN Ok([self EXCEPT !.fields = Put(shorted, field.title, field)])

\* Fault variant: the title of the Flag is not looked up among the Fields.
Action_insert_flag_fields_unchecked(self, flag) ==
    IF flag.title = <<>> THEN Err("Flag must have a non-empty title.")
    ELSE IF flag.title \in DOMAIN self.flags THEN Err("already contains a Flag")
    ELSE IF flag.short # None /\ <<Unwrap(flag.short)>> \in DOMAIN self.flags
        THEN Err("already contains a Flag with short tag")
    ELSE IF flag.short # None /\ <<Unwrap(flag.short)>> \in DOMAIN self.fields
        THEN Err("already contains a Field with short tag")
    ELSE LET shorted == IF flag.short # None
                        THEN Put(self.flags, <<Unwrap(flag.short)>>, flag)
                        ELSE self.flags
         IN Ok([self EXCEPT !.flags = Put(shorted, flag.title, flag)])

\* Action::insert_flag: the mirror image of insert_field.
Action_insert_flag(self, flag) ==
    IF flag.title = <<>> THEN Err("Flag must have a non-empty title.")
    ELSE IF flag.title \in DOMAIN self.flags THEN Err("already contains a Flag")
    ELSE IF flag.title \in DOMAIN self.fields THEN Err("already contains a Field")
    ELSE IF flag.short # None /\ <<Unwrap(flag.short)>> \in DOMAIN self.flags
        THEN Err("already contains a Flag with short tag")
    ELSE IF flag.short # None /\ <<Unwrap(flag.short)>> \in DOMAIN self.fields
        THEN Err("already contains a Field with short tag")
    ELSE LET shorted == IF flag.short # None
                        THEN Put(self.flags, <<Unwrap(flag.short)>>, flag)
                        ELSE self.flags
         IN Ok([self EXCEPT !.flags = Put(shorted, flag.title, flag)])

\* Action::insert_child: uniqueness-checked insertion of a child Action under
\* its keyword (the name-keyed mapping of child Action nodes).
Action_insert_child(self, child) ==
    IF child.keyword = <<>> THEN Err("Action must have a non-empty keyword.")
    ELSE IF child.keyword \in DOMAIN self.children THEN Err("already exists")
    ELSE Ok([self EXCEPT !.children = Put(@, child.keyword, child)])

\* Cherry::new.
Cherry_new == [actions |-> EmptyMap]

\* Fault variant: a keyword already present is overwritten.
Cherry_insert_overwrites(self, act) ==
    IF act.keyword = <<>> THEN Err("Action must have a non-empty keyword.")
    ELSE Ok([self EXCEPT !.actions = Put(@, act.keyword, act)])

\* Cherry::insert.
Cherry_insert(self, act) ==
    IF act.keyword = <<>> THEN Err("Action must have a non-empty keyword.")
    ELSE IF act.keyword \in DOMAIN self.actions THEN Err("already exists")
    ELSE Ok([self EXCEPT !.actions = Put(@, act.keyword, act)])

\* A reference &Action is the path of keywords from the registry to the node.
RECURSIVE ActionAt(_, _)
ActionAt(map, path) ==
    IF Len(path) = 1 THEN map[Head(path)]
    ELSE ActionAt(map[Head(path)].children, Tail(path))

\* The Action a reference points to.
Deref(ref) == ActionAt(cherry.actions, ref)

\* Action::get_child: the child registered under the keyword, if any.
get_child(ref, keyword) ==
    IF keyword \in DOMAIN Deref(ref).children THEN Some(ref \o <<keyword>>)
    ELSE None

(***************************************************************************)
(* The Request accumulator.                                                *)
(***************************************************************************)
\* The values of a HashMap.
Values(map) == {map[k] : k \in DOMAIN map}

\* Request::new: every declared Field at its default, every Flag false, both
\* keyed by title.
Request_new(ref) ==
    LET a == Deref(ref) IN
    [action |-> ref,
     arguments |-> <<>>,
     fields |-> [t \in {f.title : f \in Values(a.fields)} |->
                    (CHOOSE f \in Values(a.fields) : f.title = t).default],
     flags |-> [t \in {f.title : f \in Values(a.flags)} |-> FALSE]]

\* Request::get_field.
get_field(self, key) ==
    IF key \in DOMAIN self.fields THEN self.fields[key] ELSE None

\* Request::get_flag.
get_flag(self, key) == Get(self.flags, key)

\* Request::has_field.
has_field(self, key) == key \in DOMAIN Deref(self.action).fields

\* Fault variant: has_flag looks the key up in the Request, among the titles.
has_flag_titles_only(self, key) == key \in DOMAIN self.flags

\* Request::has_flag.
has_flag(self, key) == key \in DOMAIN Deref(self.action).flags

\* Fault variant: the value is pushed without looking up its Argument.
Request_insert_argument_unchecked(self, argument) ==
    Ok([self EXCEPT !.arguments = Append(@, argument)])

\* Fault variant: the predicate of the first Argument is asked for every
\* position.
Request_insert_argument_first_filter(self, argument) ==
    LET declared == Deref(self.action).arguments
        index == Len(self.arguments) + 1
    IN IF index > Len(declared) THEN Err(TodoHelp)
       ELSE LET filter == declared[1].filter IN
            IF filter # None /\ ~CallFilter(Unwrap(filter), argument)
            THEN Err(TodoHelp)
            ELSE Ok([self EXCEPT !.arguments = Append(@, argument)])

\* Request::insert_argument.
Request_insert_argument(self, argument) ==
    LET declared == Deref(self.action).arguments
        index == Len(self.arguments) + 1
    IN IF index > Len(declared) THEN Err(TodoHelp)
       ELSE LET filter == declared[index].filter IN
            IF filter # None /\ ~CallFilter(Unwrap(filter), argument)
            THEN Err(TodoHelp)
            ELSE Ok([self EXCEPT !.arguments = Append(@, argument)])

\* Request::insert_field.
Request_insert_field(self, field, value) ==
    LET found == Get(Deref(self.action).fields, field) IN
    IF found = None THEN Err(TodoHelp)
    ELSE LET f == Unwrap(found) IN
         IF f.filter # None /\ ~CallFilter(Unwrap(f.filter), value)
         THEN Err(TodoHelp)
         ELSE Ok([self EXCEPT !.fields = Put(@, f.title, Some(value))])

\* Fault variant: the Flag is toggled instead of set.
Request_insert_flag_toggles(self, flag) ==
    LET found == Get(Deref(self.action).flags, flag) IN
    IF found = None THEN Err(TodoHelp)
    ELSE Ok([self EXCEPT !.flags = Put(@, Unwrap(found).title, ~@[Unwrap(found).title])])

\* Fault variant: the Flag is set under the key it was looked up by, title or
\* short.
Request_insert_flag_under_key(self, flag) ==
    LET found == Get(Deref(self.action).flags, flag) IN
    IF found = None THEN Err(TodoHelp)
    ELSE Ok([self EXCEPT !.flags = Put(@, flag, TRUE)])

\* Request::insert_flag.
Request_insert_flag(self, flag) ==
    LET found == Get(Deref(self.action).flags, flag) IN
    IF found = None THEN Err(TodoHelp)
    ELSE Ok([self EXCEPT !.flags = Put(@, Unwrap(found).title, TRUE)])

\* Request::validate.
validate(self) == Len(self.arguments) = Len(Deref(self.action).arguments)

\* Action::run on the Action `self` with a Request: the outcome and, when the
\* callback was called, its name and the Request it was given.
Action_run(self, req) ==
    IF ~Action_eq(Deref(req.action), self)
    THEN [ok |-> FALSE, callback |-> None, message |-> "Cannot run request"]
    ELSE IF self.then = None
    THEN [ok |-> FALSE, callback |-> None, message |-> TodoHelp]
    ELSE [ok |-> TRUE, callback |-> self.then, message |-> ""]

\* No run call was made.
NoRun == [target |-> <<>>, self |-> <<>>, ok |-> FALSE, callback |-> None, message |-> "none"]

(***************************************************************************)
(* The resolver: Cherry::parse.  The state of a running parse is the       *)
(* record [action, request, child_path, status]; status is "run" while the *)
(* loop goes on, "Ok" or "Err" once parse has returned.                    *)
(***************************************************************************)
NoAction == <<>>

\* No Request: before the selector is resolved, and after a failure, which
\* drops the Request under construction.
NoRequest ==
    [action |-> NoAction, arguments |-> <<>>, fields |-> EmptyMap, flags |-> EmptyMap]

\* The locals of a parse that was not entered.
NoParse ==
    [pc |-> "off", action |-> NoAction, request |-> NoRequest, child_path |-> FALSE,
     result |-> "none", consumed |-> <<>>]

Failed == [action |-> NoAction, request |-> NoRequest, child_path |-> FALSE, status |-> "Err"]

\* Fault variant: a failed Request operation leaves the loop running on the
\* Request as it was, the token being skipped.
Continue_skips_failure(st, res) ==
    IF res.ok THEN [st EXCEPT !.request = res.value] ELSE st

\* The `?` on a Request operation inside the loop: go on with the new Request,
\* or return the error.
Continue(st, res) ==
    IF res.ok THEN [st EXCEPT !.request = res.value] ELSE Failed

\* `stripped.bytes().try_fold(request, ...)`: insert_flag for every byte, up to
\* the first failure.
RECURSIVE fold_flags(_, _)
fold_flags(res, keys) ==
    IF ~res.ok \/ keys = <<>> THEN res
    ELSE fold_flags(Request_insert_flag(res.value, <<Head(keys)>>), Tail(keys))

\* Fault variant: a first token that names no Action selects the Action g.
parse_select_with_default(first) ==
    IF first = None THEN Failed
    ELSE LET keyword == IF escape(Unwrap(first)) \in DOMAIN cherry.actions
                        THEN escape(Unwrap(first))
                        ELSE <<"g">>
         IN IF keyword \notin DOMAIN cherry.actions THEN Failed
            ELSE [action |-> <<keyword>>, request |-> Request_new(<<keyword>>),
                  child_path |-> TRUE, status |-> "run"]

\* Lines 222-234: pop the selector, unescape it, look it up, create the Request.
\* `first` is what command.next() returned.
parse_select(first) ==
    IF first = None THEN Failed
    ELSE LET keyword == escape(Unwrap(first)) IN
         IF keyword \notin DOMAIN cherry.actions THEN Failed
         ELSE [action |-> <<keyword>>, request |-> Request_new(<<keyword>>),
               child_path |-> TRUE, status |-> "run"]

\* Fault variant: a token that is nothing but one or two hyphens is taken for
\* a positional.
classify_bare_dash_positional(st, value, following) ==
    IF StartsWith(value, <<HYPHEN>>) /\ value \notin {<<HYPHEN>>, <<HYPHEN, HYPHEN>>} THEN
        LET short == Tail(value)
            long == StartsWith(short, <<HYPHEN>>)
            stripped == IF long THEN Tail(short) ELSE short
            combined_short_flags == ~long /\ ByteLen(short) > 1
        IN IF combined_short_flags THEN
               [st |-> Continue(st, fold_flags(Ok(st.request), LossyBytes(stripped))),
                role |-> "flags", took |-> FALSE]
           ELSE IF has_flag(st.request, stripped) THEN
               [st |-> Continue(st, Request_insert_flag(st.request, stripped)),
                role |-> "flag", took |-> FALSE]
           ELSE IF following = None THEN
               [st |-> Failed, role |-> "field", took |-> FALSE]
           ELSE
               [st |-> Continue(st, Request_insert_field(st.request, stripped,
                                                         escape(Unwrap(following)))),
                role |-> "field", took |-> TRUE]
    ELSE [st |-> Continue(st, Request_insert_argument(st.request, value)),
          role |-> "argument", took |-> FALSE]

\* Lines 253-273: classify the unescaped token `value` against the Request.
\* `following` is what the next command.next() returns, should the token turn
\* out to name a Field.  The result says how the token was used and whether
\* `following` was taken from the iterator.
classify(st, value, following) ==
    IF StartsWith(value, <<HYPHEN>>) THEN
        LET short == Tail(value)
            long == StartsWith(short, <<HYPHEN>>)
            stripped == IF long THEN Tail(short) ELSE short
            combined_short_flags == ~long /\ ByteLen(short) > 1
        IN IF combined_short_flags THEN
               [st |-> Continue(st, fold_flags(Ok(st.request), LossyBytes(stripped))),
                role |-> "flags", took |-> FALSE]
           ELSE IF has_flag(st.request, stripped) THEN
               [st |-> Continue(st, Request_insert_flag(st.request, stripped)),
                role |-> "flag", took |-> FALSE]
           ELSE IF following = None THEN
               [st |-> Failed, role |-> "field", took |-> FALSE]
           ELSE
               [st |-> Continue(st, Request_insert_field(st.request, stripped,
                                                         escape(Unwrap(following)))),
                role |-> "field", took |-> TRUE]
    ELSE [st |-> Continue(st, Request_insert_argument(st.request, value)),
          role |-> "argument", took |-> FALSE]

\* Fault variant: the child lookup is made for every token, child_path or not.
parse_token_always_descends(st, next, following) ==
    LET value == escape(next)
        child == get_child(st.action, value)
    IN IF child # None
       THEN [st |-> [st EXCEPT !.action = Unwrap(child),
                               !.request = Request_new(Unwrap(child))],
             role |-> "child", took |-> FALSE]
       ELSE classify([st EXCEPT !.child_path = FALSE], value, following)

\* Fault variant: the token that ends the child path is dropped (`continue`)
\* instead of being classified.
parse_token_skips_first(st, next, following) ==
    LET value == escape(next)
        child == IF st.child_path THEN get_child(st.action, value) ELSE None
        action1 == IF child # None THEN Unwrap(child) ELSE st.action
        st1 == IF st.child_path
               THEN [st EXCEPT !.action = action1,
                               !.child_path = (child # None),
                               !.request = Request_new(action1)]
               ELSE st
    IN IF st1.child_path THEN [st |-> st1, role |-> "child", took |-> FALSE]
       ELSE IF st.child_path
            THEN [st |-> st1, role |-> classify(st1, value, following).role, took |-> FALSE]
       ELSE classify(st1, value, following)

\* Fault variant: a token whose leading hyphen is escaped is taken for a
\* positional, the raw token being classified and the unescaped one stored.
parse_token_classifies_raw(st, next, following) ==
    LET value == escape(next)
        child == IF st.child_path THEN get_child(st.action, value) ELSE None
        action1 == IF child # None THEN Unwrap(child) ELSE st.action
        st1 == IF st.child_path
               THEN [st EXCEPT !.action = action1,
                               !.child_path = (child # None),
                               !.request = Request_new(action1)]
               ELSE st
    IN IF st1.child_path THEN [st |-> st1, role |-> "child", took |-> FALSE]
       ELSE IF StartsWith(next, <<BACKSLASH, HYPHEN>>)
       THEN [st |-> Continue(st1, Request_insert_argument(st1.request, value)),
             role |-> "argument", took |-> FALSE]
       ELSE classify(st1, value, following)

\* Lines 237-274: one iteration of the loop on the token `next`.
parse_token(st, next, following) ==
    LET value == escape(next)
        child == IF st.child_path THEN get_child(st.action, value) ELSE None
        action1 == IF child # None THEN Unwrap(child) ELSE st.action
        st1 == IF st.child_path
               THEN [st EXCEPT !.action = action1,
                               !.child_path = (child # None),
                               !.request = Request_new(action1)]
               ELSE st
    IN IF st1.child_path THEN [st |-> st1, role |-> "child", took |-> FALSE]
       ELSE classify(st1, value, following)

\* Lines 276-280: the iterator is exhausted; validate the Request.
parse_end(st) ==
    IF validate(st.request) THEN [st EXCEPT !.status = "Ok"] ELSE Failed

\* The loop over a whole token list.
RECURSIVE parse_loop(_, _)
parse_loop(st, command) ==
    IF st.status # "run" THEN st
    ELSE IF command = <<>> THEN parse_end(st)
    ELSE LET following == IF Len(command) >= 2 THEN Some(command[2]) ELSE None
             step == parse_token(st, Head(command), following)
         IN parse_loop(step.st, Drop(command, IF step.took THEN 2 ELSE 1))

\* Cherry::parse on a whole token list.
parse(command) ==
    IF command = <<>> THEN parse_select(None)
    ELSE parse_loop(parse_select(Some(Head(command))), Tail(command))

(***************************************************************************)
(* The scanner: Cherry::parse_str.  The state of a running scan is the     *)
(* record [parts, build, quote, old_quote, status].                        *)
(***************************************************************************)
\* char::is_whitespace, on the characters of the model.
is_whitespace(character) == character = SPACE

ScanFailed ==
    [parts |-> <<>>, build |-> <<>>, quote |-> None, old_quote |-> None,
     status |-> "Err"]

\* Fault variant: a quote character of either style closes the active quote.
scan_quote_any_style(st, character) ==
    IF character = BACKSLASH THEN st.quote
    ELSE IF character \in {DQUOTE, SQUOTE} /\ st.quote # None THEN None
    ELSE IF character \in {DQUOTE, SQUOTE} THEN Some(character)
    ELSE st.quote

\* The match on `character`: the quote state after it.
scan_quote(st, character) ==
    IF character = BACKSLASH THEN st.quote
    ELSE IF character = DQUOTE /\ st.quote = Some(DQUOTE) THEN None
    ELSE IF character = DQUOTE /\ st.quote = None THEN Some(DQUOTE)
    ELSE IF character = SQUOTE /\ st.quote = Some(SQUOTE) THEN None
    ELSE IF character = SQUOTE /\ st.quote = None THEN Some(SQUOTE)
    ELSE st.quote

\* Fault variant: a backslash after a closing quote is let through.
scan_reject_but_backslash(st, character) ==
    /\ st.old_quote # None
    /\ st.quote = None
    /\ ~is_whitespace(character)
    /\ character # BACKSLASH

\* The check at the top of the loop body: a quote was closed by the previous
\* character and this one is no whitespace.
scan_reject(st, character) ==
    st.old_quote # None /\ st.quote = None /\ ~is_whitespace(character)

\* Fault variant: a backslash with nothing after it is kept as a character.
scan_char_keeps_last_backslash(st, character, following) ==
    IF scan_reject(st, character)
    THEN [st |-> ScanFailed, took |-> FALSE]
    ELSE LET escaped == character = BACKSLASH /\ following # None
             pushed == IF escaped THEN Unwrap(following) ELSE character
             build1 == IF escaped THEN Append(st.build, BACKSLASH) ELSE st.build
             quote1 == scan_quote(st, character)
             old1 == st.quote
         IN IF old1 # quote1 \/ (quote1 = None /\ is_whitespace(pushed))
            THEN [st |-> [parts |-> IF build1 # <<>> THEN Append(st.parts, build1)
                                    ELSE st.parts,
                          build |-> <<>>, quote |-> quote1, old_quote |-> old1,
                          status |-> "run"],
                  took |-> escaped]
            ELSE [st |-> [parts |-> st.parts, build |-> Append(build1, pushed),
                          quote |-> quote1, old_quote |-> old1, status |-> "run"],
                  took |-> escaped]

\* Fault variant: the buffer is pushed at every flush, empty or not.
scan_char_pushes_empty(st, character, following) ==
    IF scan_reject(st, character)
    THEN [st |-> ScanFailed, took |-> FALSE]
    ELSE IF character = BACKSLASH /\ following = None
    THEN [st |-> ScanFailed, took |-> FALSE]
    ELSE LET escaped == character = BACKSLASH
             pushed == IF escaped THEN Unwrap(following) ELSE character
             build1 == IF escaped THEN Append(st.build, BACKSLASH) ELSE st.build
             quote1 == scan_quote(st, character)
             old1 == st.quote
         IN IF old1 # quote1 \/ (quote1 = None /\ is_whitespace(pushed))
            THEN [st |-> [parts |-> Append(st.parts, build1),
                          build |-> <<>>, quote |-> quote1, old_quote |-> old1,
                          status |-> "run"],
                  took |-> escaped]
            ELSE [st |-> [parts |-> st.parts, build |-> Append(build1, pushed),
                          quote |-> quote1, old_quote |-> old1, status |-> "run"],
                  took |-> escaped]

\* One iteration of the while loop on the character chars.next() yielded;
\* `following` is what the next chars.next() returns, should the character be
\* a backslash.  `took` says whether `following` was taken from the iterator.
scan_char(st, character, following) ==
    IF scan_reject(st, character)
    THEN [st |-> ScanFailed, took |-> FALSE]
    ELSE IF character = BACKSLASH /\ following = None
    THEN [st |-> ScanFailed, took |-> FALSE]
    ELSE LET escaped == character = BACKSLASH
             pushed == IF escaped THEN Unwrap(following) ELSE character
             build1 == IF escaped THEN Append(st.build, BACKSLASH) ELSE st.build
             quote1 == scan_quote(st, character)
             old1 == st.quote
         IN IF old1 # quote1 \/ (quote1 = None /\ is_whitespace(pushed))
            THEN [st |-> [parts |-> IF build1 # <<>> THEN Append(st.parts, build1)
                                    ELSE st.parts,
                          build |-> <<>>, quote |-> quote1, old_quote |-> old1,
                          status |-> "run"],
                  took |-> escaped]
            ELSE [st |-> [parts |-> st.parts, build |-> Append(build1, pushed),
                          quote |-> quote1, old_quote |-> old1, status |-> "run"],
                  took |-> escaped]

\* Fault variant: the buffer left at the end of the input is dropped.
scan_flush_dropped(st) == st.parts

\* After the loop: the last token, if any, is pushed.
scan_flush(st) == IF st.build # <<>> THEN Append(st.parts, st.build) ELSE st.parts

\* The loop over a whole string, up to the tokens handed to parse.
RECURSIVE scan_loop(_, _)
scan_loop(st, command) ==
    IF st.status # "run" THEN st
    ELSE IF command = <<>> THEN [st EXCEPT !.parts = scan_flush(st), !.build = <<>>,
                                           !.status = "Ok"]
    ELSE LET following == IF Len(command) >= 2 THEN Some(command[2]) ELSE None
             step == scan_char(st, Head(command), following)
         IN scan_loop(step.st, Drop(command, IF step.took THEN 2 ELSE 1))

ScanStart ==
    [parts |-> <<>>, build |-> <<>>, quote |-> None, old_quote |-> None,
     status |-> "run"]

\* Cherry::parse_str on a whole string.
parse_str(command) ==
    LET scan == scan_loop(ScanStart, command) IN
    IF scan.status = "Err" THEN Failed ELSE parse(scan.parts)

(***************************************************************************)
(* The registry of the model and the tokens the caller's iterator yields.  *)
(***************************************************************************)
\* Titles, keywords and values.
kw_g == <<"g">>

kw_s == <<"s">>

t_vb == <<"v", "b">>

t_fo == <<"f", "o">>

t_ec == <<"e", "c">>

t_en == <<"e", "n">>

t_ua == <<"u", "a">>

t_nm == <<"n", "m">>

t_rc == <<"r", "c">>

\* g/s/s: a description, a callback, one Argument.
ActionGSS ==
    Action_insert_argument(
        Action_then(Action_description(Action_new(kw_s).value, <<"d">>), "then_gss"),
        Argument(<<"o", "n", "e">>, AlnumFilter)).value

\* g/s: a callback; two Arguments, the second filtered; a Flag, a Field, the
\* child s.
ActionGS ==
    LET a0 == Action_then(Action_new(kw_s).value, "then_gs")
        a1 == Action_insert_argument(a0, Argument(<<"o", "n", "e">>, NoFilter)).value
        a2 == Action_insert_argument(a1, Argument(<<"t", "w", "o">>, AlnumFilter)).value
        a3 == Action_insert_flag(a2, Flag(t_vb, Some("v"))).value
        a4 == Action_insert_field(a3, Field(t_nm, None, None, NoFilter)).value
    IN Action_insert_child(a4, ActionGSS).value

\* g: no Argument; Flags vb (-v), fo (-f), ec (short U+00E9); Fields en (-e,
\* default "p", filtered) and ua (short U+00FC, no default); the child s.
ActionG ==
    LET a0 == Action_new(kw_g).value
        a1 == Action_insert_flag(a0, Flag(t_vb, Some("v"))).value
        a2 == Action_insert_flag(a1, Flag(t_fo, Some("f"))).value
        a3 == Action_insert_flag(a2, Flag(t_ec, Some(E_ACUTE))).value
        a4 == Action_insert_field(a3, Field(t_en, Some("e"), Some(<<"p">>), AlnumFilter)).value
        a5 == Action_insert_field(a4, Field(t_ua, Some(U_UMLAUT), None, NoFilter)).value
    IN Action_insert_child(a5, ActionGS).value

\* s (top level): a callback; one Argument; the Field ua (short U+00FC, no default); the
\* Flag rc, whose short is the replacement character U+FFFD itself.
ActionS ==
    LET a0 == Action_then(Action_new(kw_s).value, "then_s")
        a1 == Action_insert_argument(a0, Argument(<<"o", "n", "e">>, NoFilter)).value
        a2 == Action_insert_field(a1, Field(t_ua, Some(U_UMLAUT), None, NoFilter)).value
    IN Action_insert_flag(a2, Flag(t_rc, Some(REPLACEMENT))).value

Registry == Cherry_insert(Cherry_insert(Cherry_new, ActionG).value, ActionS).value

Registries == {Cherry_new, Registry}

\* The references to the Actions of a registry.
RECURSIVE Paths(_)
Paths(map) ==
    UNION {{<<k>>} \cup {<<k>> \o p : p \in Paths(map[k].children)} : k \in DOMAIN map}

\* The reference of an Action the caller built and holds outside the registry.
Outside == <<>>

\* The Actions a caller may call run on: those of the registry, and Actions of
\* its own with the keyword s and a callback, without and with a description.
RunTargets ==
    {[ref |-> p, act |-> Deref(p)] : p \in Paths(cherry.actions)}
        \cup {[ref |-> Outside, act |-> Action_then(Action_new(kw_s).value, "hello")],
              [ref |-> Outside,
               act |-> Action_then(Action_description(Action_new(kw_s).value, <<"e">>),
                                   "hello")]}

\* The tokens of the model, as the caller hands them over (not yet unescaped).
tok_vb == <<HYPHEN, HYPHEN, "v", "b">>

tok_v == <<HYPHEN, "v">>

tok_f == <<HYPHEN, "f">>

tok_vf == <<HYPHEN, "v", "f">>

tok_ve == <<HYPHEN, "v", "e">>

tok_esc_v == <<BACKSLASH, HYPHEN, "v">>

tok_en == <<HYPHEN, HYPHEN, "e", "n">>

tok_e == <<HYPHEN, "e">>

tok_bs_n == <<BACKSLASH, "n">>

tok_ec_v == <<HYPHEN, E_ACUTE, "v">>

tok_ua == <<HYPHEN, U_UMLAUT>>

\* The empty string.
tok_empty == <<>>

\* A hyphen and nothing else.
tok_dash == <<HYPHEN>>

Tokens ==
    {kw_g, kw_s, tok_vb, tok_v, tok_f, tok_vf, tok_ve, tok_esc_v, tok_en, tok_e,
     tok_bs_n, tok_ec_v, tok_ua, tok_empty, tok_dash}

(***************************************************************************)
(* The parse runs: one call of Cherry::parse on a caller's iterator.       *)
(***************************************************************************)
\* The running parse's locals as one record.
St == [action |-> action, request |-> request, child_path |-> child_path, status |-> "run"]

\* The locals after a step, and parse's return once status is not "run".
Becomes(st) ==
    /\ action' = st.action
    /\ request' = st.request
    /\ child_path' = st.child_path
    /\ pc' = IF st.status = "run" THEN "loop" ELSE "done"
    /\ result' = IF st.status = "run" THEN "none" ELSE st.status

ParseInit ==
    /\ cherry \in Registries
    /\ pc = "start"
    /\ action = NoAction
    /\ request = NoRequest
    /\ child_path = FALSE
    /\ result = "none"
    /\ consumed = <<>>
    /\ roles = <<>>
    /\ ran = NoRun
    /\ peer = NoParse

EscapeOff ==
    /\ esc_pc = "off"
    /\ esc_orig = <<>>
    /\ esc_in = <<>>
    /\ esc_out = <<>>

\* No Action is being built.
SchemaOff ==
    /\ draft = Action_new(kw_g).value
    /\ calls = <<>>

ScanOff ==
    /\ scan_pc = "off"
    /\ parts = <<>>
    /\ build = <<>>
    /\ quote = None
    /\ old_quote = None
    /\ scanned = <<>>
    /\ opened = 0
    /\ closed_at = 0

\* parse is entered and pops the selector.
ParseSelect ==
    /\ pc = "start"
    /\ \E first \in {None} \cup {Some(t) : t \in Tokens} :
        /\ Becomes(parse_select(first))
        /\ consumed' = IF first = None THEN <<>> ELSE <<Unwrap(first)>>
        /\ roles' = IF first = None THEN <<>> ELSE <<"selector">>
    /\ UNCHANGED <<peer, cherry, ran, escape_vars, scan_vars, schema_vars>>

\* One iteration of the while loop: the iterator yields `next`, and `following`
\* when the iteration asks for a Field value.
ParseToken ==
    /\ pc = "loop"
    /\ Len(consumed) < MaxTokens
    /\ \E next \in Tokens :
       \E following \in {None} \cup
                {Some(t) : t \in IF Len(consumed) + 2 <= MaxTokens THEN Tokens ELSE {}} :
        LET step == parse_token(St, next, following) IN
        /\ Becomes(step.st)
        /\ consumed' = consumed \o <<next>> \o
                       (IF step.took THEN <<Unwrap(following)>> ELSE <<>>)
        /\ roles' = roles \o <<step.role>> \o (IF step.took THEN <<"value">> ELSE <<>>)
    /\ UNCHANGED <<peer, cherry, ran, escape_vars, scan_vars, schema_vars>>

\* The iterator is exhausted: the loop ends and the Request is validated.
ParseEnd ==
    /\ pc = "loop"
    /\ Becomes(parse_end(St))
    /\ UNCHANGED <<peer, cherry, consumed, roles, ran, escape_vars, scan_vars, schema_vars>>

\* The caller calls run on an Action with the Request parse returned.
Run ==
    /\ pc = "done"
    /\ result = "Ok"
    /\ \E target \in RunTargets :
        LET r == Action_run(target.act, request) IN
        ran' = [target |-> target.ref, self |-> target.act, ok |-> r.ok,
                callback |-> r.callback, message |-> r.message]
    /\ pc' = "ran"
    /\ UNCHANGED <<peer, cherry, action, request, child_path, result, consumed, roles,
                   escape_vars, scan_vars, schema_vars>>

Init == ParseInit /\ EscapeOff /\ ScanOff /\ SchemaOff

Next == ParseSelect \/ ParseToken \/ ParseEnd \/ Run

Spec == Init /\ [][Next]_vars

(***************************************************************************)
(* The escape runs: Cherry::escape applied to a string, as the caller      *)
(* wrote it or after the caller protected its special characters.          *)
(***************************************************************************)
EscAlphabet == {BACKSLASH, SQUOTE, DQUOTE, HYPHEN, "a"}

StringsUpTo(n) == UNION {[1..k -> EscAlphabet] : k \in 0..n}

Specials == {BACKSLASH, SQUOTE, DQUOTE, HYPHEN}

\* What a caller writes to get the token t through the unescape pass: one
\* backslash before every quote, hyphen and backslash of t.
RECURSIVE Protect(_)
Protect(t) ==
    IF t = <<>> THEN <<>>
    ELSE (IF Head(t) \in Specials THEN <<BACKSLASH, Head(t)>> ELSE <<Head(t)>>)
         \o Protect(Tail(t))

ParseOff ==
    /\ cherry = Cherry_new
    /\ pc = "off"
    /\ action = NoAction
    /\ request = NoRequest
    /\ child_path = FALSE
    /\ result = "none"
    /\ consumed = <<>>
    /\ roles = <<>>
    /\ ran = NoRun
    /\ peer = NoParse

EscapeInit ==
    /\ esc_pc = "raw"
    /\ esc_orig \in StringsUpTo(MaxLen)
    /\ esc_in = esc_orig
    /\ esc_out = <<>>

\* The caller protects the special characters of the token.
ProtectToken ==
    /\ esc_pc = "raw"
    /\ esc_in' = Protect(esc_orig)
    /\ esc_pc' = "protected"
    /\ UNCHANGED <<peer, esc_orig, esc_out, parse_vars, scan_vars, schema_vars>>

\* Cherry::escape runs on the string.
EscapeCall ==
    /\ esc_pc \in {"raw", "protected"}
    /\ esc_out' = escape(esc_in)
    /\ esc_pc' = IF esc_pc = "raw" THEN "unescaped" ELSE "round_trip"
    /\ UNCHANGED <<peer, esc_orig, esc_in, parse_vars, scan_vars, schema_vars>>

InitEscape == ParseOff /\ EscapeInit /\ ScanOff /\ SchemaOff

NextEscape == ProtectToken \/ EscapeCall

SpecEscape == InitEscape /\ [][NextEscape]_vars

(***************************************************************************)
(* The scan runs: Cherry::parse_str on a raw string that the character     *)
(* iterator yields one character at a time.                                *)
(***************************************************************************)
ScanAlphabet == {"g", "s", SPACE, SQUOTE, DQUOTE, BACKSLASH}

ScanSt ==
    [parts |-> parts, build |-> build, quote |-> quote, old_quote |-> old_quote,
     status |-> "run"]

ParseWaits ==
    /\ cherry = Registry
    /\ pc = "off"
    /\ action = NoAction
    /\ request = NoRequest
    /\ child_path = FALSE
    /\ result = "none"
    /\ consumed = <<>>
    /\ roles = <<>>
    /\ ran = NoRun
    /\ peer = NoParse

ScanInit ==
    /\ scan_pc = "scan"
    /\ parts = <<>>
    /\ build = <<>>
    /\ quote = None
    /\ old_quote = None
    /\ scanned = <<>>
    /\ opened = 0
    /\ closed_at = 0

\* One iteration of the while loop of parse_str.
ScanChar ==
    /\ scan_pc = "scan"
    /\ Len(scanned) < MaxChars
    /\ \E character \in ScanAlphabet :
       \E following \in {None} \cup
                {Some(c) : c \in IF Len(scanned) + 2 <= MaxChars THEN ScanAlphabet ELSE {}} :
        LET step == scan_char(ScanSt, character, following) IN
        /\ parts' = step.st.parts
        /\ build' = step.st.build
        /\ quote' = step.st.quote
        /\ old_quote' = step.st.old_quote
        /\ scan_pc' = IF step.st.status = "run" THEN "scan" ELSE "done"
        /\ result' = IF step.st.status = "run" THEN "none" ELSE "Err"
        /\ scanned' = scanned \o <<character>> \o
                      (IF step.took THEN <<Unwrap(following)>> ELSE <<>>)
        /\ opened' = IF step.st.quote = None THEN 0
                     ELSE IF quote = None THEN Len(scanned) + 1
                     ELSE opened
        /\ closed_at' = IF step.st.status = "run" /\ quote # None /\ step.st.quote = None
                        THEN Len(scanned) + 1
                        ELSE closed_at
    /\ UNCHANGED <<peer, cherry, pc, action, request, child_path, consumed, roles, ran,
                   escape_vars, schema_vars>>

\* The characters are exhausted: the last token is pushed and the tokens go
\* to Cherry::parse, whose return is the return of parse_str.
ScanEnd ==
    /\ scan_pc = "scan"
    /\ LET st == parse(scan_flush(ScanSt)) IN
        /\ parts' = scan_flush(ScanSt)
        /\ build' = <<>>
        /\ scan_pc' = "done"
        /\ result' = st.status
        /\ request' = st.request
        /\ action' = st.action
    /\ UNCHANGED <<peer, cherry, pc, child_path, consumed, roles, ran, quote, old_quote,
                   scanned, opened, closed_at, escape_vars, schema_vars>>

InitScan == ParseWaits /\ EscapeOff /\ ScanInit /\ SchemaOff

NextScan == ScanChar \/ ScanEnd

SpecScan == InitScan /\ [][NextScan]_vars

(***************************************************************************)
(* The schema runs: a caller builds an Action with insert_field and        *)
(* insert_flag and registers Actions with Cherry::insert.  Each of these   *)
(* takes its receiver by value, so a call that returns Err leaves the      *)
(* caller without the object.                                              *)
(***************************************************************************)
\* An object that was moved into a call that returned Err.
Dropped == [dropped |-> TRUE]

Titles == {<<>>, <<"a">>, <<"b">>, <<"c">>}

Shorts == {None, Some("a"), Some("b")}

FieldItems == {Field(t, c, None, NoFilter) : t \in Titles, c \in Shorts}

FlagItems == {Flag(t, c) : t \in Titles, c \in Shorts}

Keywords == {<<>>, kw_g, kw_s}

\* The caller still holds the Action and the registry.
SchemaLive ==
    /\ Len(calls) < MaxInserts
    /\ calls # <<>> => calls[Len(calls)].ok

\* draft.insert_field(f).
InsertField ==
    /\ SchemaLive
    /\ \E f \in FieldItems :
        LET r == Action_insert_field(draft, f) IN
        /\ draft' = IF r.ok THEN r.value ELSE Dropped
        /\ calls' = Append(calls, [kind |-> "field", item |-> f, ok |-> r.ok])
    /\ UNCHANGED <<peer, parse_vars, escape_vars, scan_vars>>

\* draft.insert_flag(f).
InsertFlag ==
    /\ SchemaLive
    /\ \E f \in FlagItems :
        LET r == Action_insert_flag(draft, f) IN
        /\ draft' = IF r.ok THEN r.value ELSE Dropped
        /\ calls' = Append(calls, [kind |-> "flag", item |-> f, ok |-> r.ok])
    /\ UNCHANGED <<peer, parse_vars, escape_vars, scan_vars>>

\* cherry.insert(draft), the caller having set the public keyword of the
\* Action; a new Action is begun afterwards.
InsertAction ==
    /\ SchemaLive
    /\ \E keyword \in Keywords :
        LET act == [draft EXCEPT !.keyword = keyword]
            r == Cherry_insert(cherry, act)
        IN /\ cherry' = IF r.ok THEN r.value ELSE Dropped
           /\ draft' = Action_new(kw_g).value
           /\ calls' = Append(calls, [kind |-> "action", item |-> act, ok |-> r.ok])
    /\ UNCHANGED <<peer, pc, action, request, child_path, result, consumed, roles, ran,
                   escape_vars, scan_vars>>

InitSchema == ParseOff /\ EscapeOff /\ ScanOff /\ SchemaOff

NextSchema == InsertField \/ InsertFlag \/ InsertAction

SpecSchema == InitSchema /\ [][NextSchema]_vars

(***************************************************************************)
(* The build runs: a caller makes Actions, Arguments, Fields and Flags     *)
(* with their constructors and puts items on an Action.  The title of an   *)
(* item is a public field, so an item can reach an insert with any title,  *)
(* the empty one included.  Here `calls` holds [kind, item, ok, message].  *)
(***************************************************************************)
BuildTitles == {<<>>, <<"a">>, <<"b">>}

BuildShorts == {None, Some("a")}

\* What a call returned, for the record of calls.
Outcome(kind, item, r) ==
    [kind |-> kind, item |-> item, ok |-> r.ok,
     message |-> IF r.ok THEN "" ELSE r.value]

\* Action::new(keyword)?: the Action under construction is replaced.
NewAction ==
    /\ SchemaLive
    /\ \E keyword \in Keywords :
        LET r == Action_new(keyword) IN
        /\ draft' = IF r.ok THEN r.value ELSE draft
        /\ calls' = Append(calls, Outcome("Action::new", keyword, r))
    /\ UNCHANGED <<peer, parse_vars, escape_vars, scan_vars>>

\* Argument::new(title)?.
NewArgument ==
    /\ SchemaLive
    /\ \E title \in BuildTitles :
        calls' = Append(calls, Outcome("Argument::new", title, Argument_new(title)))
    /\ UNCHANGED <<peer, draft, parse_vars, escape_vars, scan_vars>>

\* Field::new(title)?.
NewField ==
    /\ SchemaLive
    /\ \E title \in BuildTitles :
        calls' = Append(calls, Outcome("Field::new", title, Field_new(title)))
    /\ UNCHANGED <<peer, draft, parse_vars, escape_vars, scan_vars>>

\* Flag::new(title)?.
NewFlag ==
    /\ SchemaLive
    /\ \E title \in BuildTitles :
        calls' = Append(calls, Outcome("Flag::new", title, Flag_new(title)))
    /\ UNCHANGED <<peer, draft, parse_vars, escape_vars, scan_vars>>

\* draft.insert_argument(a)?.
PutArgument ==
    /\ SchemaLive
    /\ \E title \in BuildTitles :
        LET item == Argument(title, NoFilter)
            r == Action_insert_argument(draft, item)
        IN /\ draft' = IF r.ok THEN r.value ELSE Dropped
           /\ calls' = Append(calls, Outcome("insert_argument", item, r))
    /\ UNCHANGED <<peer, parse_vars, escape_vars, scan_vars>>

\* draft.insert_field(f)?.
PutField ==
    /\ SchemaLive
    /\ \E title \in BuildTitles, short \in BuildShorts :
        LET item == Field(title, short, None, NoFilter)
            r == Action_insert_field(draft, item)
        IN /\ draft' = IF r.ok THEN r.value ELSE Dropped
           /\ calls' = Append(calls, Outcome("insert_field", item, r))
    /\ UNCHANGED <<peer, parse_vars, escape_vars, scan_vars>>

\* draft.insert_flag(f)?.
PutFlag ==
    /\ SchemaLive
    /\ \E title \in BuildTitles, short \in BuildShorts :
        LET item == Flag(title, short)
            r == Action_insert_flag(draft, item)
        IN /\ draft' = IF r.ok THEN r.value ELSE Dropped
           /\ calls' = Append(calls, Outcome("insert_flag", item, r))
    /\ UNCHANGED <<peer, parse_vars, escape_vars, scan_vars>>

InitBuild == ParseOff /\ EscapeOff /\ ScanOff /\ SchemaOff

NextBuild ==
    NewAction \/ NewArgument \/ NewField \/ NewFlag \/ PutArgument \/ PutField \/ PutFlag

SpecBuild == InitBuild /\ [][NextBuild]_vars

(***************************************************************************)
(* Two parses side by side: two callers hold the same &Cherry and each     *)
(* runs Cherry::parse on its own iterator; their iterations interleave in  *)
(* any order.  The first parse uses the locals of the single parse, the    *)
(* second the record `peer`.                                               *)
(***************************************************************************)
PairTokens == {kw_g, kw_s, tok_v, tok_e, tok_bs_n}

PairFollowings(sofar) ==
    {None} \cup {Some(t) : t \in IF Len(sofar) + 2 <= MaxPairTokens THEN PairTokens ELSE {}}

\* The state of the second parse, and its locals after a step.
PeerSt ==
    [action |-> peer.action, request |-> peer.request, child_path |-> peer.child_path,
     status |-> "run"]

PeerBecomes(st, sofar) ==
    peer' = [pc |-> IF st.status = "run" THEN "loop" ELSE "done",
             action |-> st.action,
             request |-> st.request,
             child_path |-> st.child_path,
             result |-> IF st.status = "run" THEN "none" ELSE st.status,
             consumed |-> sofar]

\* Fault variant: selecting an Action leaves a mark on it in the registry.
FirstSelect_marks_registry ==
    /\ pc = "start"
    /\ \E first \in PairTokens :
        /\ Becomes(parse_select(Some(first)))
        /\ consumed' = <<first>>
        /\ roles' = <<"selector">>
        /\ cherry' = IF first \in DOMAIN cherry.actions
                     THEN [cherry EXCEPT !.actions[first].description = Some(<<"u">>)]
                     ELSE cherry
    /\ UNCHANGED <<peer, ran, escape_vars, scan_vars, schema_vars>>

\* The first parse is entered and pops its selector.
FirstSelect ==
    /\ pc = "start"
    /\ \E first \in PairTokens :
        /\ Becomes(parse_select(Some(first)))
        /\ consumed' = <<first>>
        /\ roles' = <<"selector">>
    /\ UNCHANGED <<peer, cherry, ran, escape_vars, scan_vars, schema_vars>>

\* One iteration of the loop of the first parse.
FirstToken ==
    /\ pc = "loop"
    /\ Len(consumed) < MaxPairTokens
    /\ \E next \in PairTokens, following \in PairFollowings(consumed) :
        LET step == parse_token(St, next, following) IN
        /\ Becomes(step.st)
        /\ consumed' = consumed \o <<next>> \o
                       (IF step.took THEN <<Unwrap(following)>> ELSE <<>>)
        /\ roles' = roles \o <<step.role>> \o (IF step.took THEN <<"value">> ELSE <<>>)
    /\ UNCHANGED <<peer, cherry, ran, escape_vars, scan_vars, schema_vars>>

\* The iterator of the first parse is exhausted.
FirstEnd ==
    /\ pc = "loop"
    /\ Becomes(parse_end(St))
    /\ UNCHANGED <<peer, cherry, consumed, roles, ran, escape_vars, scan_vars, schema_vars>>

\* The second parse is entered and pops its selector.
SecondSelect ==
    /\ peer.pc = "start"
    /\ \E first \in PairTokens :
        PeerBecomes(parse_select(Some(first)), <<first>>)
    /\ UNCHANGED <<parse_vars, escape_vars, scan_vars, schema_vars>>

\* One iteration of the loop of the second parse.
SecondToken ==
    /\ peer.pc = "loop"
    /\ Len(peer.consumed) < MaxPairTokens
    /\ \E next \in PairTokens, following \in PairFollowings(peer.consumed) :
        LET step == parse_token(PeerSt, next, following) IN
        PeerBecomes(step.st, peer.consumed \o <<next>> \o
                             (IF step.took THEN <<Unwrap(following)>> ELSE <<>>))
    /\ UNCHANGED <<parse_vars, escape_vars, scan_vars, schema_vars>>

\* The iterator of the second parse is exhausted.
SecondEnd ==
    /\ peer.pc = "loop"
    /\ PeerBecomes(parse_end(PeerSt), peer.consumed)
    /\ UNCHANGED <<parse_vars, escape_vars, scan_vars, schema_vars>>

InitTwo ==
    /\ cherry = Registry
    /\ pc = "start"
    /\ action = NoAction
    /\ request = NoRequest
    /\ child_path = FALSE
    /\ result = "none"
    /\ consumed = <<>>
    /\ roles = <<>>
    /\ ran = NoRun
    /\ peer = [NoParse EXCEPT !.pc = "start"]
    /\ EscapeOff /\ ScanOff /\ SchemaOff

NextTwo ==
    FirstSelect \/ FirstToken \/ FirstEnd \/ SecondSelect \/ SecondToken \/ SecondEnd

SpecTwo == InitTwo /\ [][NextTwo]_vars

(***************************************************************************)
(* Properties of the parse runs.                                           *)
(***************************************************************************)
\* The number of Arguments declared on the Action behind a reference.
Declared(ref) == Len(Deref(ref).arguments)

\* The number of consumed tokens the resolver classified as positional.
Positionals == Cardinality({i \in 1..Len(roles) : roles[i] = "argument"})

\* The token consumed first by the step being taken, and its role.
StepTaken == Len(consumed') > Len(consumed)

StepRole == roles'[Len(consumed) + 1]

C1_CountState ==
    /\ result = "Ok" =>
        /\ validate(request)
        /\ Len(request.arguments) = Declared(request.action)
        /\ Positionals = Declared(request.action)
    /\ pc = "loop" => Len(request.arguments) <= Declared(action)

C1_CountStep ==
    /\ (pc = "loop" /\ pc' = "done" /\ ~StepTaken) =>
        (result' = "Ok" <=> Len(request.arguments) = Declared(action))
    /\ (pc = "loop" /\ StepTaken /\ StepRole = "argument"
            /\ Len(request.arguments) >= Declared(action)) =>
        result' = "Err"

\* C1: parse returns Ok only when the number of positional values collected
\* equals the number of Arguments declared on the resolved Action: every Ok
\* Request validates, the collected count never exceeds the declared count in
\* any step, too few positionals fail at the final validation and a surplus
\* positional fails the step that meets it.
C1_ArgumentCount == [](C1_CountState) /\ [][C1_CountStep]_vars

\* C1 witness: a parse that ended Ok on an Action with two declared Arguments,
\* both collected.
C1_Witness ==
    /\ result = "Ok"
    /\ Declared(request.action) = 2
    /\ Len(request.arguments) = 2

C2_NoLateDescent ==
    (pc = "loop" /\ ~child_path) =>
        /\ StepTaken => StepRole \in {"flag", "flags", "field", "argument"}
        /\ result' # "Err" =>
            /\ action' = action
            /\ ~child_path'
            /\ request'.action = action

\* C2: once a token after the selector has failed to match a child keyword,
\* child_path stays inactive for the rest of the parse: no later token causes a
\* descent, even one equal to a child keyword of the current Action; it is
\* classified as an option or a positional of the Action already resolved.
C2_ChildPathStaysInactive == [][C2_NoLateDescent]_vars

\* C2 witness: a parse that ended Ok with a token equal to a child keyword of
\* the resolved Action collected as a positional argument.
C2_Witness ==
    /\ result = "Ok"
    /\ \E i \in 1..Len(roles) :
        /\ roles[i] = "argument"
        /\ escape(consumed[i]) \in DOMAIN Deref(action).children
        /\ \E k \in 1..Len(request.arguments) : request.arguments[k] = escape(consumed[i])

\* The path reached from `path` by following the longest prefix of `tokens` in
\* which each unescaped token is a child keyword of the Action reached so far.
RECURSIVE ChildPrefix(_, _)
ChildPrefix(path, tokens) ==
    IF tokens = <<>> THEN path
    ELSE LET keyword == escape(Head(tokens)) IN
         IF keyword \in DOMAIN ActionAt(cherry.actions, path).children
         THEN ChildPrefix(path \o <<keyword>>, Tail(tokens))
         ELSE path

ResolvedPath(command) == ChildPrefix(<<escape(Head(command))>>, Tail(command))

\* The name an option token carries after its `--` or `-`.
Stripped(value) ==
    IF StartsWith(value, <<HYPHEN, HYPHEN>>) THEN Drop(value, 2) ELSE Drop(value, 1)

\* The first token after the child prefix shows in the Request.
FirstNonChildProcessed ==
    LET k == Len(action) + 1
        value == escape(consumed[k])
        a == Deref(action)
    IN /\ roles[k] \in {"flag", "flags", "field", "argument"}
       /\ roles[k] = "argument" =>
            /\ request.arguments # <<>>
            /\ request.arguments[1] = value
       /\ roles[k] = "flag" =>
            /\ Stripped(value) \in DOMAIN a.flags
            /\ request.flags[a.flags[Stripped(value)].title]
       /\ roles[k] = "flags" =>
            \E key \in DOMAIN a.flags : request.flags[a.flags[key].title]
       /\ (roles[k] = "field" /\ Len(consumed) = k + 1) =>
            /\ Stripped(value) \in DOMAIN a.fields
            /\ request.fields[a.fields[Stripped(value)].title] = Some(escape(consumed[k + 1]))

\* C3: the Action a parse binds the Request to is the one reached from the
\* selector's top-level Action along the longest prefix of the remaining tokens
\* in which each unescaped token is a child keyword of the Action reached so
\* far; the first token that matches no child is not skipped but processed as
\* an option or positional of that Action.
C3_LongestChildPrefix ==
    (pc \in {"loop", "done"} /\ result # "Err") =>
        /\ action = ResolvedPath(consumed)
        /\ request.action = action
        /\ child_path <=> Len(consumed) = Len(action)
        /\ Len(consumed) > Len(action) => FirstNonChildProcessed

\* C3 witness: a parse that descended into a child, met a token that is no
\* child keyword there, and ended Ok with that token as the first argument.
C3_Witness ==
    /\ result = "Ok"
    /\ Len(action) = 2
    /\ Len(consumed) > 2
    /\ roles[3] = "argument"
    /\ escape(consumed[3]) \notin DOMAIN Deref(action).children
    /\ request.arguments[1] = escape(consumed[3])

\* seq with x inserted after its j-th element.
InsertAfter(seq, j, x) == SubSeq(seq, 1, j) \o <<x>> \o SubSeq(seq, j + 1, Len(seq))

\* seq with its i-th element replaced by the elements of xs.
ReplaceAt(seq, i, xs) == SubSeq(seq, 1, i - 1) \o xs \o SubSeq(seq, i + 1, Len(seq))

\* A whole parse of `command` ends Ok with exactly this Request.
ParsesTo(command, req) ==
    LET st == parse(command) IN st.status = "Ok" /\ st.request = req

\* The i-th consumed token is a single-dash flag token: one short, or a group.
ShortFlagToken(i) ==
    /\ roles[i] \in {"flag", "flags"}
    /\ ~StartsWith(escape(consumed[i]), <<HYPHEN, HYPHEN>>)

\* C4: setting a Flag that is already true leaves it true and never errors:
\* for a command that parses successfully, repeating a flag token (long, short,
\* or one byte inside a single-dash group) at any later token boundary yields a
\* Request equal to the one parsed without the repetition.
C4_FlagIdempotent ==
    result = "Ok" =>
        \A i \in 1..Len(consumed) :
            /\ roles[i] \in {"flag", "flags"} =>
                \A j \in i..Len(consumed) :
                    roles[j] # "field" =>
                        ParsesTo(InsertAfter(consumed, j, consumed[i]), request)
            /\ ShortFlagToken(i) =>
                LET name == Stripped(escape(consumed[i])) IN
                \A b \in 1..Len(name) :
                    ParsesTo(ReplaceAt(consumed, i,
                                 <<(<<HYPHEN>> \o InsertAfter(name, b, name[b]))>>),
                             request)

\* C4 witness: a parse that ended Ok after the same flag token was consumed
\* twice as a flag.
C4_Witness ==
    /\ result = "Ok"
    /\ \E i, j \in 1..Len(consumed) :
        /\ i < j
        /\ roles[i] = "flag"
        /\ roles[j] = "flag"
        /\ consumed[i] = consumed[j]
        /\ request.flags[Deref(action).flags[Stripped(escape(consumed[i]))].title]

\* The loop run over `tokens` from the locals `st`, without the final validation.
RECURSIVE RunTokens(_, _)
RunTokens(st, tokens) ==
    IF st.status # "run" \/ tokens = <<>> THEN st
    ELSE LET following == IF Len(tokens) >= 2 THEN Some(tokens[2]) ELSE None
             step == parse_token(st, Head(tokens), following)
         IN RunTokens(step.st, Drop(tokens, IF step.took THEN 2 ELSE 1))

\* The Flags of the current Action whose short is the character c.
FlagsWithShort(c) == {f \in Values(Deref(action).flags) : f.short = Some(c)}

\* The step being taken consumes a single-dash group of two or more characters,
\* each the declared short of a Flag of the current Action.
GroupOfShorts(name) ==
    /\ pc = "loop"
    /\ StepTaken
    /\ StepRole = "flags"
    /\ Len(name) >= 2
    /\ \A i \in 1..Len(name) : FlagsWithShort(name[i]) # {}

\* The step has the effect of the separate tokens -c1 ... -cn: exactly the
\* named Flags become true, nothing else changes.
GroupActsAsSeparate(name) ==
    LET base == IF child_path THEN Request_new(action) ELSE request
        separate == [i \in 1..Len(name) |-> <<HYPHEN, name[i]>>]
        apart == RunTokens(St, separate)
        named == {f.title : f \in UNION {FlagsWithShort(name[i]) : i \in 1..Len(name)}}
    IN /\ result' # "Err"
       /\ apart.status = "run"
       /\ apart.request = request'
       /\ request'.flags = [t \in DOMAIN base.flags |-> base.flags[t] \/ t \in named]
       /\ request'.fields = base.fields
       /\ request'.arguments = base.arguments

C5_GroupStep ==
    LET name == Stripped(escape(consumed'[Len(consumed) + 1])) IN
    GroupOfShorts(name) => GroupActsAsSeparate(name)

\* C5: for declared Flag shorts c1..cn (n >= 2) the combined token -c1c2...cn
\* produces the same Request as the separate tokens -c1 -c2 ... -cn at the same
\* position: exactly the named Flags become true and every other Flag keeps
\* its value.
C5_CombinedEqualsSeparate == [][C5_GroupStep]_vars

C5_AsciiGroupStep ==
    LET name == Stripped(escape(consumed'[Len(consumed) + 1])) IN
    (GroupOfShorts(name) /\ \A i \in 1..Len(name) : Utf8Len(name[i]) = 1)
        => GroupActsAsSeparate(name)

\* The same statement for groups of one-byte shorts only, which the byte-wise
\* loop of Cherry::parse does satisfy.
C5_AsciiGroups == [][C5_AsciiGroupStep]_vars

\* ---------------------------------------------------------------------------
\* Field values
\* ---------------------------------------------------------------------------

\* The tokens that name the Field f: `--title`, and `-short` when it has one.
Names(f) ==
    {<<HYPHEN, HYPHEN>> \o f.title}
        \cup (IF f.short = None THEN {} ELSE {<<HYPHEN, Unwrap(f.short)>>})

\* The Fields of the Action a that the unescaped token value names.
FieldsNamed(a, value) == {f \in Values(a.fields) : value \in Names(f)}

\* Every Field of a at its declared default.
Defaults(a) ==
    [t \in {f.title : f \in Values(a.fields)} |->
        (CHOOSE f \in Values(a.fields) : f.title = t).default]

\* The Field values a command asks for, read left to right: a token naming a
\* Field takes the token after it as that Field's value, later namings
\* replacing earlier ones; every other token leaves the Fields alone.
RECURSIVE ExpectedFields(_, _, _)
ExpectedFields(a, fields, tokens) ==
    IF tokens = <<>> THEN fields
    ELSE LET named == FieldsNamed(a, escape(Head(tokens))) IN
         IF named # {} /\ Len(tokens) >= 2
         THEN ExpectedFields(a,
                  [fields EXCEPT ![(CHOOSE f \in named : TRUE).title] =
                      Some(escape(tokens[2]))],
                  Drop(tokens, 2))
         ELSE ExpectedFields(a, fields, Tail(tokens))

\* What the tokens after the child prefix ask for on the bound Action.
Expected ==
    LET a == Deref(request.action)
    IN ExpectedFields(a, Defaults(a), Drop(consumed, Len(request.action)))

FieldAsAsked(f) == get_field(request, f.title) = Expected[f.title]

\* C6: in a returned Request a Field holds its declared default (or nothing,
\* when it has none) if the input never names it, and the supplied value when
\* the input names it as `--title value` or `-short value`; either way the
\* value is found under the Field's title.
C6_FieldValue ==
    (pc = "done" /\ result = "Ok") =>
        \A f \in Values(Deref(request.action).fields) : FieldAsAsked(f)

\* The same statement for Fields named by title or by a one-byte short.
C6_AsciiFieldValue ==
    (pc = "done" /\ result = "Ok") =>
        \A f \in Values(Deref(request.action).fields) :
            (f.short = None \/ Utf8Len(Unwrap(f.short)) = 1) => FieldAsAsked(f)

\* A returned Request in which one Field was named by its short and holds the
\* supplied value while another was never named and holds its default.
C6_AsciiWitness ==
    /\ pc = "done" /\ result = "Ok"
    /\ \E i \in 1..Len(consumed) : roles[i] = "field" /\ consumed[i] = tok_e
    /\ get_field(request, t_en) # Some(<<"p">>)
    /\ get_field(request, t_ua) = None

\* The value passes the predicate of the Field f.
Passes(f, value) == f.filter = None \/ CallFilter(Unwrap(f.filter), value)

\* Naming f twice from the current position, by n1 with value v1 and then by
\* n2 with value v2, goes through and leaves the second value; once the
\* positionals are complete the parse returns Ok.
NamedTwice(f, n1, v1, n2, v2) ==
    LET st == RunTokens(St, <<n1, v1, n2, v2>>) IN
    /\ st.status = "run"
    /\ get_field(st.request, f.title) = Some(escape(v2))
    /\ Len(st.request.arguments) = Declared(action) => parse_end(st).status = "Ok"

\* The names of f that are its title or a one-byte short.
AsciiNames(f) == {n \in Names(f) : \A i \in 1..Len(n) : Utf8Len(n[i]) = 1}

\* C7: when the same Field is named more than once in one command, by title
\* and/or by short in any mix, the parse succeeds provided each value passes
\* the Field's predicate, and the Request holds the value of the last
\* occurrence.
C7_LastFieldWins ==
    pc = "loop" =>
        \A f \in Values(Deref(action).fields) :
            \A n1, n2 \in Names(f) :
                \A v1, v2 \in {v \in Tokens : Passes(f, escape(v))} :
                    NamedTwice(f, n1, v1, n2, v2)

\* The same statement for namings by title or by a one-byte short.
C7_AsciiLastFieldWins ==
    pc = "loop" =>
        \A f \in Values(Deref(action).fields) :
            \A n1, n2 \in AsciiNames(f) :
                \A v1, v2 \in {v \in Tokens : Passes(f, escape(v))} :
                    NamedTwice(f, n1, v1, n2, v2)

\* A returned Request of a command that named the Field en by title and then
\* by short with another value, and holds the second value.
C7_AsciiWitness ==
    /\ pc = "done" /\ result = "Ok"
    /\ \E i, j \in 1..Len(consumed) :
        /\ i + 1 < j /\ j < Len(consumed)
        /\ roles[i] = "field" /\ consumed[i] = tok_en
        /\ roles[j] = "field" /\ consumed[j] = tok_e
        /\ escape(consumed[i + 1]) # escape(consumed[j + 1])
        /\ get_field(request, t_en) = Some(escape(consumed[j + 1]))

\* ---------------------------------------------------------------------------
\* The unescape pass
\* ---------------------------------------------------------------------------

\* The reference: one scan, left to right; a backslash followed by a quote, a
\* hyphen or a backslash is rewritten to that character and the scan resumes
\* after the pair; anything else is copied.
RECURSIVE RefUnescape(_)
RefUnescape(s) ==
    IF s = <<>> THEN <<>>
    ELSE IF Head(s) = BACKSLASH /\ Len(s) >= 2 /\ s[2] \in Specials
         THEN <<s[2]>> \o RefUnescape(Drop(s, 2))
         ELSE <<Head(s)>> \o RefUnescape(Tail(s))

\* C8: for every input string Cherry::escape returns what the reference scan
\* returns: exactly the four pairs backslash+single-quote, backslash+
\* double-quote, backslash+hyphen and backslash+backslash are rewritten to
\* their second character, every other pair (its backslash included) and every
\* other character is left unchanged.
C8_EscapeEqualsReference ==
    esc_pc = "unescaped" => esc_out = RefUnescape(esc_in)

\* C8 witness: two backslashes before a quote, where the scan pairs the
\* backslashes and the passes pair the second backslash with the quote.
C8_Witness ==
    /\ esc_pc = "unescaped"
    /\ esc_in = <<BACKSLASH, BACKSLASH, SQUOTE>>
    /\ esc_out = <<BACKSLASH, SQUOTE>>

\* C9: for every token t, unescaping the token obtained by putting exactly one
\* backslash before each single-quote, double-quote, hyphen and backslash of t
\* returns t.
C9_RoundTrip ==
    esc_pc = "round_trip" => esc_out = esc_orig

\* C9 witness: a token with a backslash, a quote and a hyphen made the round
\* trip.
C9_Witness ==
    /\ esc_pc = "round_trip"
    /\ esc_orig = <<BACKSLASH, SQUOTE, "a", HYPHEN>>
    /\ esc_in = <<BACKSLASH, BACKSLASH, BACKSLASH, SQUOTE, "a", BACKSLASH, HYPHEN>>
    /\ esc_out = esc_orig

\* The token holds a backslash followed by a character that is no backslash,
\* quote or hyphen (pairs read left to right).
RECURSIVE InvalidEscape(_)
InvalidEscape(s) ==
    IF Len(s) < 2 THEN FALSE
    ELSE IF Head(s) = BACKSLASH
         THEN s[2] \notin Specials \/ InvalidEscape(Drop(s, 2))
         ELSE InvalidEscape(Tail(s))

\* C10: Cherry::parse returns an error when a token contains an invalid escape
\* sequence, i.e. a backslash followed by a character other than backslash,
\* single-quote, double-quote or hyphen.
C10_InvalidEscapeIsError ==
    (pc = "done" /\ \E i \in 1..Len(consumed) : InvalidEscape(consumed[i]))
        => result = "Err"

\* ---------------------------------------------------------------------------
\* The scanner
\* ---------------------------------------------------------------------------

\* The iteration being taken, and the character it starts with.
ScanTaken == Len(scanned') > Len(scanned)

ScanCharacter == scanned'[Len(scanned) + 1]

\* The raw text after the quote that is open.
SinceOpened == SubSeq(scanned, opened + 1, Len(scanned))

\* While a quote is open the buffer is the raw text since the opening quote,
\* whitespace and quote characters of the other style included.
QuotedTextKept ==
    (scan_pc = "scan" /\ quote # None) =>
        /\ opened \in 1..Len(scanned)
        /\ scanned[opened] = Unwrap(quote)
        /\ build = SinceOpened

\* The matching quote closes the token: the enclosed text becomes one token.
\* Any other unescaped character inside the quote is appended and leaves the
\* quote state alone.
QuotedStep ==
    (scan_pc = "scan" /\ quote # None /\ ScanTaken /\ ScanCharacter # BACKSLASH) =>
        IF ScanCharacter = Unwrap(quote)
        THEN /\ quote' = None
             /\ scan_pc' = "scan"
             /\ build' = <<>>
             /\ parts' = IF SinceOpened # <<>> THEN Append(parts, SinceOpened) ELSE parts
        ELSE /\ quote' = quote
             /\ scan_pc' = "scan"
             /\ build' = Append(build, ScanCharacter)
             /\ parts' = parts

\* C11: parse_str treats the text enclosed in a matching pair of single or
\* double quotes as one token that keeps its internal whitespace; a quote
\* character of the other style inside an active quote is kept as a literal
\* character of that token and does not change the quote state.
C11_QuotedToken == [](QuotedTextKept) /\ [][QuotedStep]_vars

\* C11 witness: a single-quoted text with a space and a double quote inside
\* came out as one token.
C11_Witness ==
    /\ scan_pc = "done"
    /\ scanned = <<SQUOTE, "g", SPACE, DQUOTE, SQUOTE>>
    /\ parts = << <<"g", SPACE, DQUOTE>> >>

\* The last character scanned closed a quote.
JustClosed == scan_pc = "scan" /\ closed_at > 0 /\ closed_at = Len(scanned)

\* After a closing quote a non-whitespace character fails the scan at once; a
\* whitespace character is scanned on; at the end of the input the tokens go
\* to the resolver as they are.
AfterClosingStep ==
    JustClosed =>
        IF ScanTaken
        THEN IF is_whitespace(ScanCharacter)
             THEN scan_pc' = "scan" /\ parts' = parts
             ELSE scan_pc' = "done" /\ result' = "Err"
        ELSE scan_pc' = "done" => (parts' = parts /\ result' = parse(parts).status)

\* C12: parse_str returns Err whenever a closing quote is immediately followed
\* by a non-whitespace character, whatever that character is; a closing quote
\* followed by whitespace or by the end of the input raises no lexical error.
C12_ClosingQuoteAbuts == [][AfterClosingStep]_vars

\* C12 witness: `'s'` followed by a backslash was rejected.
C12_Witness ==
    /\ scan_pc = "done"
    /\ result = "Err"
    /\ scanned = <<SQUOTE, "s", SQUOTE, BACKSLASH>>

\* A closing quote at the end of the input: the token went to the resolver.
C12_EndWitness ==
    /\ scan_pc = "done"
    /\ result = "Ok"
    /\ scanned = <<SQUOTE, "g", SQUOTE>>
    /\ parts = <<kw_g>>

\* The iteration reads a quote character that opens a quote right after a
\* character of an unquoted token: the scan fails.
OpeningStep ==
    (/\ scan_pc = "scan"
     /\ quote = None
     /\ build # <<>>
     /\ ScanTaken
     /\ ScanCharacter \in {SQUOTE, DQUOTE})
        => (scan_pc' = "done" /\ result' = "Err")

\* C13: a quoted token must abut whitespace or the input boundary on both
\* sides: parse_str returns Err when an opening quote is immediately preceded
\* by a non-whitespace character of an unquoted token, just as it does when
\* the closing quote is immediately followed by one.
C13_OpeningQuoteAbuts == [][OpeningStep]_vars

\* The string s's' is accepted: it resolves like the two tokens s and s.
C13_Accepted ==
    /\ scan_pc = "done"
    /\ scanned = <<"s", SQUOTE, "s", SQUOTE>>
    /\ parts = <<kw_s, kw_s>>
    /\ result = "Ok"
    /\ request.arguments = <<kw_s>>

\* The iteration reads a backslash and the character after it.
PairTaken ==
    /\ scan_pc = "scan"
    /\ scan_pc' = "scan"
    /\ Len(scanned') = Len(scanned) + 2
    /\ ScanCharacter = BACKSLASH

PairFollowing == scanned'[Len(scanned) + 2]

\* Both characters of the pair go to the current token; no token ends and the
\* quote state stays.
PairAppended ==
    /\ build' = build \o <<BACKSLASH, PairFollowing>>
    /\ parts' = parts
    /\ quote' = quote

PairStep == PairTaken => PairAppended

\* C14: in parse_str a backslash and the character that follows it are both
\* appended to the current token and the following character never acts as a
\* delimiter or as a quote: a backslash followed by whitespace outside any
\* quote does not end the token, and a backslash followed by a quote character
\* does not open or close a quote.
C14_BackslashPair == [][PairStep]_vars

PairStepButSpace ==
    (PairTaken /\ (quote # None \/ ~is_whitespace(PairFollowing))) => PairAppended

\* The same statement without the pair backslash+whitespace outside a quote.
C14_PairButSpace == [][PairStepButSpace]_vars

\* A backslash before a quote character, in and outside a quote: both stayed
\* in the token and the quote state did not move.
C14_QuoteWitness ==
    /\ scan_pc = "done"
    /\ scanned = <<SQUOTE, "s", BACKSLASH, SQUOTE, SQUOTE>>
    /\ parts = << <<"s", BACKSLASH, SQUOTE>> >>

\* The input ends while a quote is open: the text after the opening quote is
\* the last token, and the tokens go to the resolver.
UnclosedEndStep ==
    (scan_pc = "scan" /\ quote # None /\ ~ScanTaken /\ scan_pc' = "done") =>
        /\ parts' = IF SinceOpened # <<>> THEN Append(parts, SinceOpened) ELSE parts
        /\ result' = parse(parts').status
        /\ request' = parse(parts').request

\* C15: parse_str on an input whose last opened quote is never closed raises no
\* lexical error: the text after the opening quote up to the end of the input
\* is flushed as one final token (when non-empty) and handed to the resolver
\* like any other token.
C15_UnclosedQuote == [][UnclosedEndStep]_vars

\* C15 witness: s followed by an unclosed quote holding g and a space returned
\* Ok with that text as the argument.
C15_Witness ==
    /\ scan_pc = "done"
    /\ quote # None
    /\ scanned = <<"s", SPACE, SQUOTE, "g", SPACE>>
    /\ parts = <<kw_s, <<"g", SPACE>> >>
    /\ result = "Ok"
    /\ request.arguments = << <<"g", SPACE>> >>

\* ---------------------------------------------------------------------------
\* Building the schema
\* ---------------------------------------------------------------------------

\* The calls made on the Action under construction, and those it accepted.
Current ==
    LET registered == {i \in 1..Len(calls) : calls[i].kind = "action"}
        from == IF registered = {} THEN 1
                ELSE 1 + CHOOSE i \in registered : \A j \in registered : j <= i
    IN from..Len(calls)

Accepted == {i \in Current : calls[i].ok}

\* The names an item answers to: its title and, when it has one, its short.
Keys(item) ==
    {item.title} \cup (IF item.short = None THEN {} ELSE {<<Unwrap(item.short)>>})

KeysOf(kind) == UNION {Keys(calls[i].item) : i \in {j \in Accepted : calls[j].kind = kind}}

\* No two accepted items share a name, and the name spaces of the Fields and
\* of the Flags of the Action are exactly the names of the accepted items.
KeySpaceDistinct ==
    draft # Dropped =>
        /\ \A i, j \in Accepted : i # j => Keys(calls[i].item) \cap Keys(calls[j].item) = {}
        /\ DOMAIN draft.fields = KeysOf("field")
        /\ DOMAIN draft.flags = KeysOf("flag")
        /\ DOMAIN draft.fields \cap DOMAIN draft.flags = {}
        /\ \A i \in Accepted : \A k \in Keys(calls[i].item) :
            IF calls[i].kind = "field" THEN draft.fields[k] = calls[i].item
            ELSE draft.flags[k] = calls[i].item

\* The last call offered an item that shares a name with an accepted one.
LastCollides ==
    /\ Current # {}
    /\ \E i \in Accepted : i < Len(calls)
        /\ Keys(calls[i].item) \cap Keys(calls[Len(calls)].item) # {}

CollisionRejected == LastCollides => ~calls[Len(calls)].ok

\* C16: after any sequence of Action::insert_field and Action::insert_flag
\* calls the combined key space of the Action has no duplicates: no title or
\* short of one Field or Flag equals the title or short of a different Field
\* or Flag, the keys of the Fields are disjoint from the keys of the Flags, and
\* an insertion that would break this returns Err.
C16_KeySpace == KeySpaceDistinct /\ CollisionRejected

\* C16 witness: a Flag whose title is the short of the Field already on the
\* Action was rejected.
C16_Witness ==
    /\ Len(calls) = 2
    /\ calls[1] = [kind |-> "field", item |-> Field(<<"a">>, Some("b"), None, NoFilter),
                   ok |-> TRUE]
    /\ calls[2] = [kind |-> "flag", item |-> Flag(<<"b">>, None), ok |-> FALSE]

\* Two items accepted side by side: a Field and a Flag with distinct names.
C16_AcceptedWitness ==
    /\ draft # Dropped
    /\ Cardinality(Accepted) = 2
    /\ DOMAIN draft.fields = {<<"a">>, <<"b">>}
    /\ DOMAIN draft.flags = {<<"c">>}

\* The last call offered a Field (a Flag) whose short is the short of a Flag
\* (a Field) the Action already holds.
ShortMeetsOtherKind ==
    /\ Current # {}
    /\ calls[Len(calls)].kind \in {"field", "flag"}
    /\ calls[Len(calls)].item.short # None
    /\ \E i \in Accepted : i < Len(calls)
        /\ calls[i].kind \in {"field", "flag"}
        /\ calls[i].kind # calls[Len(calls)].kind
        /\ calls[i].item.short = calls[Len(calls)].item.short

\* C17: short collisions between a Field and a Flag are rejected both ways:
\* inserting a Field whose short is the short of a Flag already on the Action
\* returns Err, and so does inserting a Flag whose short is the short of a
\* Field already on the Action; of a pair with equal shorts only the first
\* inserted one is accepted.
C17_ShortCollision == ShortMeetsOtherKind => ~calls[Len(calls)].ok

\* C17 witness: a Field with short b was rejected after a Flag with short b,
\* their titles being distinct from each other and from b.
C17_Witness ==
    /\ Len(calls) = 2
    /\ calls[1] = [kind |-> "flag", item |-> Flag(<<"a">>, Some("b")), ok |-> TRUE]
    /\ calls[2] = [kind |-> "field", item |-> Field(<<"c">>, Some("b"), None, NoFilter),
                   ok |-> FALSE]

\* The other order: the Flag was rejected after the Field.
C17_ReverseWitness ==
    /\ Len(calls) = 2
    /\ calls[1] = [kind |-> "field", item |-> Field(<<"c">>, Some("b"), None, NoFilter),
                   ok |-> TRUE]
    /\ calls[2] = [kind |-> "flag", item |-> Flag(<<"a">>, Some("b")), ok |-> FALSE]

\* The Cherry::insert calls made so far.
Registered == {i \in 1..Len(calls) : calls[i].kind = "action"}

\* A call is accepted exactly when its keyword is non-empty and new.
InsertOutcome ==
    \A i \in Registered :
        calls[i].ok <=>
            /\ calls[i].item.keyword # <<>>
            /\ \A j \in Registered :
                (j < i /\ calls[j].ok) => calls[j].item.keyword # calls[i].item.keyword

\* The registry holds each accepted Action, as it was inserted, under its
\* keyword, and nothing else.
RegistryKeyed ==
    cherry # Dropped =>
        /\ DOMAIN cherry.actions = {calls[i].item.keyword : i \in {j \in Registered : calls[j].ok}}
        /\ \A k \in DOMAIN cherry.actions : k # <<>> /\ cherry.actions[k].keyword = k
        /\ \A i \in Registered :
            calls[i].ok => cherry.actions[calls[i].item.keyword] = calls[i].item

\* C18: Cherry::insert returns Err for an Action whose keyword is empty and for
\* a keyword already present in the registry, and otherwise stores the Action
\* under its keyword; after any sequence of inserts every registry key is
\* non-empty and equals the keyword of the Action stored under it, and an
\* Action already registered under a keyword is never replaced by a later
\* insert.
C18_RegistryInsert == InsertOutcome /\ RegistryKeyed

\* C18 witness: g was registered, a Field was put on the next Action, and that
\* Action, a different one under the same keyword, was rejected.
C18_Witness ==
    /\ Len(calls) = 3
    /\ calls[1].kind = "action" /\ calls[1].ok /\ calls[1].item.keyword = kw_g
    /\ calls[2].kind = "field" /\ calls[2].ok
    /\ calls[3].kind = "action" /\ ~calls[3].ok /\ calls[3].item.keyword = kw_g
    /\ calls[3].item # calls[1].item

\* Two Actions registered side by side, and an empty keyword rejected.
C18_EmptyWitness ==
    /\ Len(calls) = 3
    /\ calls[1].kind = "action" /\ calls[1].ok /\ calls[1].item.keyword = kw_g
    /\ calls[2].kind = "action" /\ calls[2].ok /\ calls[2].item.keyword = kw_s
    /\ calls[3].kind = "action" /\ ~calls[3].ok /\ calls[3].item.keyword = <<>>

\* ---------------------------------------------------------------------------
\* Running a Request
\* ---------------------------------------------------------------------------

\* C19: Action::run(request) returns an error whenever the request does not
\* hold a reference to this very Action, including when the request is bound
\* to a different Action that has the same keyword and description; the
\* callback is invoked only for a request bound to this Action.
C19_RunOnlyBoundAction ==
    pc = "ran" =>
        /\ ran.target # request.action => ~ran.ok
        /\ ran.callback # None => ran.target = request.action

\* The same statement for Actions that differ from the bound one in keyword
\* or description.
C19_RunUnequalAction ==
    (pc = "ran" /\ ~Action_eq(ran.self, Deref(request.action)))
        => (~ran.ok /\ ran.callback = None)

\* A Request bound to the top-level s was run on that Action: its callback
\* was called.
C19_BoundWitness ==
    /\ pc = "ran"
    /\ request.action = <<kw_s>>
    /\ ran.target = <<kw_s>>
    /\ ran.ok
    /\ ran.callback = Some("then_s")

\* A Request bound to g/s was run on g/s/s, which has a description: Err.
C19_UnequalWitness ==
    /\ pc = "ran"
    /\ request.action = <<kw_g, kw_s>>
    /\ ran.target = <<kw_g, kw_s, kw_s>>
    /\ ~ran.ok

\* ---------------------------------------------------------------------------
\* Short names
\* ---------------------------------------------------------------------------

\* From the current position the token -c marks the Flag f true.
ShortMarksFlag(f) ==
    LET st == RunTokens(St, << <<HYPHEN, Unwrap(f.short)>> >>) IN
    /\ st.status = "run"
    /\ get_flag(st.request, f.title) = Some(TRUE)

\* From the current position the token -c followed by v stores v for the
\* Field f.
ShortStoresField(f, v) ==
    LET st == RunTokens(St, << <<HYPHEN, Unwrap(f.short)>>, v >>) IN
    /\ st.status = "run"
    /\ get_field(st.request, f.title) = Some(escape(v))

\* Every declared short of the current Action whose character is in chars
\* works as a name.
ShortsWork(chars) ==
    pc = "loop" =>
        /\ \A f \in Values(Deref(action).flags) :
            (f.short # None /\ Unwrap(f.short) \in chars) => ShortMarksFlag(f)
        /\ \A f \in Values(Deref(action).fields) :
            (f.short # None /\ Unwrap(f.short) \in chars) =>
                \A v \in {t \in Tokens : Passes(f, escape(t))} : ShortStoresField(f, v)

\* The characters declared as shorts in the registry.
DeclaredShorts == {"v", "f", "e", E_ACUTE, U_UMLAUT, REPLACEMENT}

\* C20: for every character c declared as the short of a Flag, the token -c
\* marks that Flag true; for every character c declared as the short of a
\* Field, -c followed by a value token stores that value for the Field; this
\* holds for any character that can be declared as a short, including
\* characters whose UTF-8 encoding is longer than one byte.
C20_AnyShort == ShortsWork(DeclaredShorts)

\* The same statement for shorts of one byte.
C20_OneByteShort == ShortsWork({c \in DeclaredShorts : Utf8Len(c) = 1})

\* A returned Request in which -f marked the Flag fo and -e stored a value
\* for the Field en.
C20_OneByteWitness ==
    /\ pc = "done" /\ result = "Ok"
    /\ \E i, j \in 1..Len(consumed) :
        /\ consumed[i] = tok_f /\ roles[i] = "flag"
        /\ consumed[j] = tok_e /\ roles[j] = "field"
        /\ get_field(request, t_en) = Some(escape(consumed[j + 1]))
    /\ get_flag(request, t_fo) = Some(TRUE)

\* ---------------------------------------------------------------------------
\* Option names
\* ---------------------------------------------------------------------------

\* The unescaped token is `--name`, or `-c` with exactly one character.
IsOption(value) ==
    \/ StartsWith(value, <<HYPHEN, HYPHEN>>)
    \/ Len(value) = 2 /\ value[1] = HYPHEN /\ value[2] # HYPHEN

\* Option tokens with names the registry declares nowhere, next to the tokens
\* of the model.
OptionTokens ==
    {t \in Tokens \cup {<<HYPHEN, HYPHEN, "z", "z">>, <<HYPHEN, "z">>,
                        <<HYPHEN, E_ACUTE>>, <<BACKSLASH, HYPHEN, "z">>} :
        IsOption(escape(t))}

Followings == {None} \cup {Some(t) : t \in Tokens}

\* From the current position the option token t, with `following` after it,
\* fails the parse when its name is no Flag key and either is no Field key or
\* is the last token.
OptionFails(t, following) ==
    LET a == Deref(action)
        name == Stripped(escape(t))
    IN (/\ name \notin DOMAIN a.flags
        /\ name \notin DOMAIN a.fields \/ following = None)
            => parse_token(St, t, following).st.status = "Err"

\* C21: an option token (`--name`, or `-c` with exactly one character) whose
\* name is not a key of a declared Flag makes parse return Err unless the name
\* is a key of a declared Field and another token follows it: an unknown name
\* errors whether or not a token follows, and a declared Field name as the
\* last token errors because no value remains.
C21_UnknownOption ==
    pc = "loop" => \A t \in OptionTokens : \A following \in Followings :
        OptionFails(t, following)

\* The same statement for names of one byte per character.
C21_OneByteOption ==
    pc = "loop" =>
        \A t \in {o \in OptionTokens : \A i \in 1..Len(o) : Utf8Len(o[i]) = 1} :
            \A following \in Followings : OptionFails(t, following)

\* A parse that failed on the Field name --en as its last token.
C21_LastFieldWitness ==
    /\ pc = "done" /\ result = "Err"
    /\ consumed = <<kw_g, tok_en>>
    /\ roles = <<"selector", "field">>

\* A parse that failed on -v, which the Action s does not declare, a token
\* following it.
C21_UnknownWitness ==
    /\ pc = "done" /\ result = "Err"
    /\ Len(consumed) = 3
    /\ SubSeq(consumed, 1, 2) = <<kw_s, tok_v>>
    /\ roles = <<"selector", "field", "value">>

\* ---------------------------------------------------------------------------
\* Predicates
\* ---------------------------------------------------------------------------

\* The unescaped tokens the resolver classified as positional, in input order.
RECURSIVE PositionalsUpTo(_)
PositionalsUpTo(n) ==
    IF n = 0 THEN <<>>
    ELSE IF roles[n] = "argument" THEN Append(PositionalsUpTo(n - 1), escape(consumed[n]))
    ELSE PositionalsUpTo(n - 1)

\* The Request the step starts from: a fresh one when the step ends the child
\* path.
StepBase == IF child_path THEN Request_new(action') ELSE request

\* The Request holds the positional tokens in input order.
ArgumentsInOrder ==
    (pc \in {"loop", "done"} /\ result # "Err") =>
        request.arguments = PositionalsUpTo(Len(consumed))

\* A step on the k-th positional asks the predicate of the k-th Argument.
PositionalStep ==
    (pc = "loop" /\ StepTaken /\ StepRole = "argument") =>
        LET k == Positionals + 1
            value == escape(consumed'[Len(consumed) + 1])
            declared == Deref(IF result' = "Err" THEN action ELSE action').arguments
        IN k <= Len(declared) =>
            IF declared[k].filter # None /\ ~CallFilter(Unwrap(declared[k].filter), value)
            THEN result' = "Err"
            ELSE /\ result' # "Err"
                 /\ request'.arguments = Append(StepBase.arguments, value)

\* A step on a Field name and its value asks the predicate of that Field.
FieldValueStep ==
    (pc = "loop" /\ StepTaken /\ StepRole = "field" /\ Len(consumed') = Len(consumed) + 2) =>
        LET name == Stripped(escape(consumed'[Len(consumed) + 1]))
            value == escape(consumed'[Len(consumed) + 2])
            fields == Deref(IF result' = "Err" THEN action ELSE action').fields
        IN name \in DOMAIN fields =>
            IF fields[name].filter # None /\ ~CallFilter(Unwrap(fields[name].filter), value)
            THEN result' = "Err"
            ELSE /\ result' # "Err"
                 /\ get_field(request', fields[name].title) = Some(value)

\* C22: the k-th positional token (counting only tokens classified as
\* positional, whether or not flags or fields are interleaved before it) is
\* checked against the predicate of the k-th declared Argument: if that
\* predicate exists and returns false parse returns Err; if it is absent or
\* returns true the value is appended, so the Request's arguments are the
\* positional tokens in input order.  A Field value is checked the same way
\* against that Field's predicate.
C22_Predicates == [](ArgumentsInOrder) /\ [][PositionalStep /\ FieldValueStep]_vars

\* C22 witness: on g s, the second positional, met after a flag, was rejected
\* by the predicate of the second Argument, the first Argument having none.
C22_Witness ==
    /\ pc = "done" /\ result = "Err"
    /\ consumed = <<kw_g, kw_s, tok_bs_n, tok_v, tok_bs_n>>
    /\ roles = <<"selector", "child", "argument", "flag", "argument">>

\* A Field value rejected by the predicate of the Field.
C22_FieldWitness ==
    /\ pc = "done" /\ result = "Err"
    /\ consumed = <<kw_g, tok_e, tok_bs_n>>
    /\ roles = <<"selector", "field", "value">>

\* ---------------------------------------------------------------------------
\* The selector
\* ---------------------------------------------------------------------------

\* The step that pops the selector fails when there is no token and when the
\* unescaped token is no key of the registry.
SelectorStep ==
    (pc = "start" /\ pc' # "start") =>
        ((consumed' = <<>> \/ escape(consumed'[1]) \notin DOMAIN cherry.actions)
            => (pc' = "done" /\ result' = "Err"))

\* The strings of up to MaxChars whitespace characters.
BlankStrings == {Repeat(SPACE, n) : n \in 0..MaxChars}

\* C23: Cherry::parse returns Err when the token sequence is empty, and when
\* its first token, after unescaping, is not the keyword of a top-level Action
\* of the registry; this includes an empty-string first token and any first
\* token when the registry is empty.  parse_str returns the same error for an
\* empty or whitespace-only string.
C23_Selector ==
    /\ [][SelectorStep]_vars
    /\ [](\A blank \in BlankStrings :
            /\ scan_loop(ScanStart, blank).parts = <<>>
            /\ parse_str(blank) = parse(<<>>)
            /\ parse_str(blank).status = "Err")

\* C23 witness: an empty first token was refused by the filled registry.
C23_Witness ==
    /\ pc = "done" /\ result = "Err"
    /\ cherry = Registry
    /\ consumed = <<tok_empty>>

\* The empty command on the filled registry, and a keyword on the empty one.
C23_EmptyCommandWitness ==
    /\ pc = "done" /\ result = "Err" /\ cherry = Registry /\ consumed = <<>>

C23_EmptyRegistryWitness ==
    /\ pc = "done" /\ result = "Err" /\ cherry = Cherry_new /\ consumed = <<kw_g>>

\* Under the scan runs: two spaces were scanned, no token came out, Err.
C23_BlankScanWitness ==
    /\ scan_pc = "done"
    /\ scanned = <<SPACE, SPACE>>
    /\ parts = <<>>
    /\ result = "Err"

(***************************************************************************)
(* C24: a failure on a token ends the parse.                               *)
(***************************************************************************)
\* The Request the step classifies its token against: a fresh one when the
\* step ends the child path.
ClassifyBase == IF child_path THEN Request_new(action) ELSE request

\* The step being taken classifies a token that the bound Action refuses: a
\* positional beyond the declared Arguments or rejected by its predicate, a
\* combined group with a byte that is no Flag key, a name that is neither a
\* Flag key nor a Field key, or a Field value rejected by its predicate.
TokenRefused ==
    LET a == Deref(action)
        value == escape(consumed'[Len(consumed) + 1])
        name == Stripped(value)
        k == Len(ClassifyBase.arguments) + 1
    IN \/ /\ StepRole = "argument"
          /\ \/ k > Len(a.arguments)
             \/ /\ k <= Len(a.arguments)
                /\ a.arguments[k].filter # None
                /\ ~CallFilter(Unwrap(a.arguments[k].filter), value)
       \/ /\ StepRole = "flags"
          /\ \E i \in 1..Len(LossyBytes(name)) :
                <<LossyBytes(name)[i]>> \notin DOMAIN a.flags
       \/ /\ StepRole = "field"
          /\ \/ name \notin DOMAIN a.fields
             \/ /\ Len(consumed') = Len(consumed) + 2
                /\ name \in DOMAIN a.fields
                /\ a.fields[name].filter # None
                /\ ~CallFilter(Unwrap(a.fields[name].filter),
                               escape(consumed'[Len(consumed) + 2]))

\* The token lists that may follow a prefix: nothing, any one token, and any
\* token before a positional.
Continuations == {<<>>} \cup {<<t>> : t \in Tokens} \cup {<<t, tok_bs_n>> : t \in Tokens}

\* A refused token returns Err from the step that met it, drops the Request
\* under construction, and every command that starts with the tokens consumed
\* so far returns Err as well.
RefusedStep ==
    (pc = "loop" /\ StepTaken /\ StepRole # "child" /\ TokenRefused) =>
        /\ pc' = "done"
        /\ result' = "Err"
        /\ request' = NoRequest
        /\ \A more \in Continuations : parse(consumed' \o more).status = "Err"

\* Once parse has returned Err nothing more is consumed.
ErrIsFinal == (result = "Err") => UNCHANGED vars

\* What parse returns is Err without a Request, or Ok with a Request that
\* holds a value for every declared Argument.
NoPartialRequest ==
    /\ result = "Err" => (pc = "done" /\ request = NoRequest)
    /\ result = "Ok" => validate(request)

\* C24: any failure raised while processing a token (unknown flag or field
\* name, predicate rejection, positional overflow, a non-flag byte in a
\* combined group) is terminal: parse returns Err at once, consumes no further
\* token, and returns Err for every continuation of that token prefix; no
\* partially filled Request is ever returned.
C24_TerminalFailure == [](NoPartialRequest) /\ [][RefusedStep /\ ErrIsFinal]_vars

\* C24 witness: on s the combined group -vf held a byte that is no Flag key;
\* parse returned Err on it, the Request dropped.
C24_Witness ==
    /\ pc = "done" /\ result = "Err"
    /\ consumed = <<kw_s, tok_vf>>
    /\ roles = <<"selector", "flags">>
    /\ request = NoRequest

\* On g a positional overflowed after a flag was set, and on s the name of
\* -v is neither a Flag key nor a Field key.
C24_OverflowWitness ==
    /\ pc = "done" /\ result = "Err"
    /\ consumed = <<kw_g, tok_v, tok_bs_n>>
    /\ roles = <<"selector", "flag", "argument">>

C24_UnknownNameWitness ==
    /\ pc = "done" /\ result = "Err"
    /\ consumed = <<kw_s, tok_v, kw_g>>
    /\ roles = <<"selector", "field", "value">>

(***************************************************************************)
(* C25: empty keywords and titles.                                         *)
(***************************************************************************)
Constructors == {"Action::new", "Argument::new", "Field::new", "Flag::new"}

Inserts == {"insert_argument", "insert_field", "insert_flag"}

\* The message each kind of object reports for an empty keyword or title.
EmptyMessage(kind) ==
    IF kind = "Action::new" THEN "Action must have a non-empty keyword."
    ELSE IF kind \in {"Argument::new", "insert_argument"}
        THEN "Argument must have a non-empty title."
    ELSE IF kind \in {"Field::new", "insert_field"}
        THEN "Field must have a non-empty title."
    ELSE "Flag must have a non-empty title."

\* The call made last was given an empty keyword or title.
LastIsEmpty ==
    /\ calls # <<>>
    /\ LET c == calls[Len(calls)] IN
       \/ c.kind \in Constructors /\ c.item = <<>>
       \/ c.kind \in Inserts /\ c.item.title = <<>>

\* The short of the item inserted last is a key of the Action it was put on.
LastShortTaken ==
    /\ Len(calls) >= 2
    /\ calls[Len(calls)].kind \in {"insert_field", "insert_flag"}
    /\ calls[Len(calls)].item.short # None
    /\ \E i \in 1..(Len(calls) - 1) :
        /\ calls[i].kind \in {"insert_field", "insert_flag"}
        /\ calls[i].ok
        /\ <<Unwrap(calls[Len(calls)].item.short)>> \in Keys(calls[i].item)
        /\ \A j \in (i + 1)..(Len(calls) - 1) : calls[j].kind # "Action::new"

\* C25: Action::new, Argument::new, Field::new and Flag::new return Err for an
\* empty keyword or title, and Action::insert_argument, insert_field and
\* insert_flag return Err when given an item whose title is empty; each kind
\* reports its own distinct message, and the empty-title check is made before
\* any collision check: an empty-titled item whose short is taken is refused
\* with the empty-title message.
C25_EmptyTitle ==
    /\ LastIsEmpty =>
        LET c == calls[Len(calls)] IN
        /\ ~c.ok
        /\ c.message = EmptyMessage(c.kind)
        /\ c.kind \in Inserts => draft = Dropped
    /\ \A j, k \in Constructors : j # k => EmptyMessage(j) # EmptyMessage(k)

\* C25 witness: a Field with the empty title and the short a was put on an
\* Action that holds a Flag with the short a; the call returned the
\* empty-title message of Fields.
C25_Witness ==
    /\ Len(calls) = 2
    /\ calls[1].kind = "insert_flag" /\ calls[1].ok
    /\ calls[1].item = Flag(<<"b">>, Some("a"))
    /\ calls[2].kind = "insert_field"
    /\ calls[2].item = Field(<<>>, Some("a"), None, NoFilter)
    /\ LastIsEmpty /\ LastShortTaken
    /\ calls[2].message = "Field must have a non-empty title."
    /\ draft = Dropped

\* The constructors and the other inserts were given the empty string.
C25_ConstructorWitness ==
    /\ Len(calls) = 1
    /\ calls[1].kind = "Flag::new" /\ calls[1].item = <<>> /\ ~calls[1].ok

C25_ActionWitness ==
    /\ Len(calls) = 1
    /\ calls[1].kind = "Action::new" /\ calls[1].item = <<>> /\ ~calls[1].ok

C25_ArgumentWitness ==
    /\ Len(calls) = 2
    /\ calls[1].kind = "insert_argument" /\ calls[1].ok
    /\ calls[2].kind = "insert_argument" /\ calls[2].item.title = <<>>
    /\ calls[2].message = "Argument must have a non-empty title."

C25_FlagWitness ==
    /\ Len(calls) = 2
    /\ calls[1].kind = "insert_field" /\ calls[1].ok
    /\ calls[1].item.short = Some("a")
    /\ calls[2].kind = "insert_flag"
    /\ calls[2].item = Flag(<<>>, Some("a"))
    /\ calls[2].message = "Flag must have a non-empty title."

(***************************************************************************)
(* C26: validate::is_alphanumeric.                                         *)
(***************************************************************************)
\* The strings of up to two characters over letters of both cases, a digit,
\* punctuation and a two-byte letter, next to the unescaped tokens.
AlnumSamples ==
    UNION {[1..k -> {"a", "Z", "0", HYPHEN, ".", E_ACUTE}] : k \in 0..2}
        \cup {escape(t) : t \in Tokens}

\* The pattern [a-zA-Z0-9]+.
MatchesAlnumPlus(value) ==
    /\ value # <<>>
    /\ \A i \in 1..Len(value) :
        \/ value[i] \in {"a", "b", "c", "d", "e", "f", "g", "h", "i", "j", "k", "l", "m",
                         "n", "o", "p", "q", "r", "s", "t", "u", "v", "w", "x", "y", "z"}
        \/ value[i] \in {"A", "B", "C", "D", "E", "F", "G", "H", "I", "J", "K", "L", "M",
                         "N", "O", "P", "Q", "R", "S", "T", "U", "V", "W", "X", "Y", "Z"}
        \/ value[i] \in {"0", "1", "2", "3", "4", "5", "6", "7", "8", "9"}

\* A value the Field en of g took from the command passed is_alphanumeric, the
\* filter of that Field; it matches the pattern.
FilteredFieldMatches ==
    (pc \in {"loop", "done"} /\ result # "Err" /\ action = <<kw_g>>
        /\ \E i \in 1..Len(roles) : roles[i] = "value" /\ consumed[i - 1] \in {tok_en, tok_e})
            => MatchesAlnumPlus(Unwrap(get_field(request, t_en)))

\* C26: validate::is_alphanumeric(value) returns true exactly for the strings
\* matching [a-zA-Z0-9]+, i.e. non-empty strings made only of ASCII letters and
\* digits; it returns false for every other string, including the empty
\* string.  Hence a value accepted by a Field with this filter is non-empty.
C26_Alphanumeric ==
    /\ \A value \in AlnumSamples : is_alphanumeric(value) <=> MatchesAlnumPlus(value)
    /\ FilteredFieldMatches

\* On the non-empty strings is_alphanumeric agrees with the pattern, and the
\* empty string is the one string it accepts outside the pattern.
C26_NonEmptyAlphanumeric ==
    /\ \A value \in AlnumSamples \ {<<>>} : is_alphanumeric(value) <=> MatchesAlnumPlus(value)
    /\ is_alphanumeric(<<>>)
    /\ (pc \in {"loop", "done"} /\ result # "Err" /\ action = <<kw_g>>) =>
            \/ get_field(request, t_en) = Some(<<>>)
            \/ MatchesAlnumPlus(Unwrap(get_field(request, t_en)))

\* The parse of g --en '' returned Ok with the empty string in the Field en.
C26_EmptyAcceptedWitness ==
    /\ result = "Ok"
    /\ consumed = <<kw_g, tok_en, tok_empty>>
    /\ get_field(request, t_en) = Some(<<>>)

(***************************************************************************)
(* C27: a combined group holds Flags only.                                 *)
(***************************************************************************)
\* A single dash followed by more than one byte.
IsGroup(value) ==
    /\ Len(value) >= 2
    /\ value[1] = HYPHEN
    /\ value[2] # HYPHEN
    /\ ByteLen(Tail(value)) > 1

GroupTokens ==
    {t \in Tokens \cup {<<HYPHEN, "e", "v">>, <<HYPHEN, U_UMLAUT, "v">>,
                        <<HYPHEN, "v", "z">>, <<HYPHEN, E_ACUTE>>} :
        IsGroup(escape(t))}

\* The group has a byte that is not the key of a Flag of the Action a: a
\* one-byte character that is no key, or a byte of a longer character.
HasNonFlagByte(a, value) ==
    \E i \in 2..Len(value) :
        Utf8Len(value[i]) > 1 \/ <<value[i]>> \notin DOMAIN a.flags

\* From the current position the group t fails the parse and leaves the
\* token after it in the iterator.
GroupFails(t, following) ==
    LET step == parse_token(St, t, following) IN
    /\ step.st.status = "Err"
    /\ step.role = "flags"
    /\ ~step.took

\* C27: a single-dash token with more than one byte after the dash fails the
\* parse if any of its bytes is not the key of a declared Flag, even when that
\* byte is the short of a declared Field: no byte of a combined group is ever
\* treated as a Field short and no following token is consumed as its value.
C27_GroupOfFlags ==
    pc = "loop" =>
        \A t \in GroupTokens, following \in Followings :
            HasNonFlagByte(Deref(action), escape(t)) => GroupFails(t, following)

\* The same for the groups made of one-byte characters.
C27_OneByteGroup ==
    pc = "loop" =>
        \A t \in GroupTokens, following \in Followings :
            (/\ \A i \in 1..Len(escape(t)) : Utf8Len(escape(t)[i]) = 1
             /\ HasNonFlagByte(Deref(action), escape(t))) => GroupFails(t, following)

\* On g the group -ve, v a Flag short and e the short of the Field en, failed
\* the parse; the token after it was not reached.
C27_FieldShortWitness ==
    /\ pc = "done" /\ result = "Err"
    /\ consumed = <<kw_g, tok_ve>>
    /\ roles = <<"selector", "flags">>
    /\ <<"e">> \in DOMAIN Deref(<<kw_g>>).fields

\* On s the token -U+00FC, two bytes after the dash and neither a Flag key, was
\* taken: the parse went on and ended Ok.
C27_TwoByteWitness ==
    /\ result = "Ok"
    /\ consumed = <<kw_s, tok_ua, tok_bs_n>>
    /\ roles = <<"selector", "flags", "argument">>

(***************************************************************************)
(* C28: the keys of a Request are the declared titles.                     *)
(***************************************************************************)
\* The titles of the Fields and of the Flags declared on an Action.
FieldTitles(a) == {a.fields[k].title : k \in DOMAIN a.fields}

FlagTitles(a) == {a.flags[k].title : k \in DOMAIN a.flags}

\* The shorts declared on an Action, as keys.
ShortKeys(a) ==
    {<<Unwrap(a.fields[k].short)>> : k \in {j \in DOMAIN a.fields : a.fields[j].short # None}}
        \cup {<<Unwrap(a.flags[k].short)>> : k \in {j \in DOMAIN a.flags : a.flags[j].short # None}}

\* The Request of a running or returned parse is keyed by the titles declared
\* on the Action it is bound to.
KeyedByTitles ==
    (pc \in {"loop", "done"} /\ result # "Err") =>
        LET a == Deref(request.action) IN
        /\ request.action = action
        /\ DOMAIN request.fields = FieldTitles(a)
        /\ DOMAIN request.flags = FlagTitles(a)
        /\ DOMAIN request.fields \cap ShortKeys(a) = {}
        /\ DOMAIN request.flags \cap ShortKeys(a) = {}

\* The step that selects an Action or descends to a child leaves a Request
\* with no argument, every Field at its declared default, every Flag false.
FreshRequest ==
    (StepTaken /\ StepRole \in {"selector", "child"} /\ result' # "Err") =>
        LET a == Deref(action') IN
        /\ request'.action = action'
        /\ request'.arguments = <<>>
        /\ \A k \in DOMAIN a.fields : request'.fields[a.fields[k].title] = a.fields[k].default
        /\ \A k \in DOMAIN a.flags : request'.flags[a.flags[k].title] = FALSE

\* C28: at every step of a parse and in every returned Request, the key set
\* of the Request's field map equals the set of titles of the Fields declared
\* on the bound Action and the key set of its flag map equals the set of
\* declared Flag titles; short aliases never appear as keys, and a freshly
\* created Request has every field at its declared default and every flag
\* false.
C28_TitleKeys == [](KeyedByTitles) /\ [][FreshRequest]_vars

\* C28 witness: on g the Flag vb and the Field en were given by their shorts
\* -v and -e; the returned Request holds them under their titles.
C28_Witness ==
    /\ result = "Ok"
    /\ consumed = <<kw_g, tok_v, tok_e, kw_s>>
    /\ DOMAIN request.flags = {t_vb, t_fo, t_ec}
    /\ DOMAIN request.fields = {t_en, t_ua}
    /\ request.flags[t_vb]
    /\ request.fields[t_en] = Some(<<"s">>)

\* The fresh Request of g holds the default of en and no value for ua.
C28_FreshWitness ==
    /\ pc = "loop"
    /\ consumed = <<kw_g>>
    /\ request.fields[t_en] = Some(<<"p">>)
    /\ request.fields[t_ua] = None
    /\ \A t \in {t_vb, t_fo, t_ec} : ~request.flags[t]

(***************************************************************************)
(* C29: parse_str makes no empty token.                                    *)
(***************************************************************************)
\* No token collected so far, or handed to parse, is the empty string.
NoEmptyToken == \A i \in 1..Len(parts) : parts[i] # <<>>

\* Outside a quote, what may follow without adding a token: whitespace, and a
\* pair of matching quotes with or without whitespace before it.
EmptyTails ==
    {Repeat(SPACE, n) : n \in 1..3}
        \cup {Repeat(SPACE, n) \o <<q, q>> : n \in 0..2, q \in {SQUOTE, DQUOTE}}

\* From a position outside a quote, and not right after a closing quote, the
\* command with such a tail gives parse the tokens the command alone gives.
EmptyTailAddsNothing ==
    (scan_pc = "scan" /\ quote = None /\ old_quote = None) =>
        \A tail \in EmptyTails :
            LET st == scan_loop(ScanSt, tail) IN
            /\ st.status = "Ok"
            /\ st.parts = scan_flush(ScanSt)
            /\ parse_str(scanned \o tail) = parse_str(scanned)

\* C29: every token parse_str hands to the resolver is non-empty: runs of
\* consecutive whitespace produce no empty tokens and an empty quoted string
\* (two adjacent matching quotes) contributes no token, so `action ''` is
\* resolved exactly like `action`.
C29_NoEmptyToken == NoEmptyToken /\ EmptyTailAddsNothing

\* C29 witness: g, a space and two single quotes were scanned; parse was
\* given the one token g and returned Ok.
C29_Witness ==
    /\ scan_pc = "done"
    /\ scanned = <<"g", SPACE, SQUOTE, SQUOTE>>
    /\ parts = <<kw_g>>
    /\ result = "Ok"

\* A run of whitespace between two tokens gave two tokens.
C29_WhitespaceWitness ==
    /\ scan_pc = "done"
    /\ scanned = <<"g", SPACE, SPACE, SPACE, "s">>
    /\ parts = <<kw_g, kw_s>>

(***************************************************************************)
(* C30: the token after a Field name is its value.                         *)
(***************************************************************************)
\* Tokens that name a Field of some Action of the registry by title or by
\* short, among them names the caller's tokens do not include.
FieldNameTokens ==
    {tok_en, tok_e, tok_ua, <<HYPHEN, HYPHEN, "u", "a">>, <<HYPHEN, HYPHEN, "n", "m">>,
     <<HYPHEN, HYPHEN, U_UMLAUT>>, <<BACKSLASH, HYPHEN, "e">>}

\* Values that begin with a dash, equal a Flag name or a child keyword, next
\* to the other tokens.
ValueTokens == Tokens \cup {<<"v", "b">>, <<HYPHEN, HYPHEN, "e", "n">>, <<"0">>}

\* From the current position the token t names the Field f of the bound
\* Action and the token v follows: v is taken from the iterator in the same
\* iteration; when the predicate of f accepts it the Request differs from the
\* one before only in holding the unescaped v under the title of f, and the
\* Action stays; when the predicate refuses it the parse fails.
TakenAsValue(t, v) ==
    LET a == Deref(action)
        name == Stripped(escape(t))
        f == a.fields[name]
        base == IF child_path THEN Request_new(action) ELSE request
        step == parse_token(St, t, Some(v))
    IN /\ step.took
       /\ step.role = "field"
       /\ IF Passes(f, escape(v))
          THEN /\ step.st.status = "run"
               /\ step.st.action = action
               /\ ~step.st.child_path
               /\ step.st.request.fields = Put(base.fields, f.title, Some(escape(v)))
               /\ step.st.request.flags = base.flags
               /\ step.st.request.arguments = base.arguments
          ELSE step.st.status = "Err"

\* The token t names a Field of the bound Action.
NamesField(t) ==
    /\ IsOption(escape(t))
    /\ Stripped(escape(t)) \in DOMAIN Deref(action).fields

\* C30: the token that follows a Field name is always consumed as that
\* Field's value and is never classified itself: a value that begins with `-`
\* or `--`, equals a flag name, or equals a child keyword is stored (after
\* unescaping) as the Field's value, sets no flag, and is not counted as a
\* positional argument.
C30_ValueNotClassified ==
    pc = "loop" =>
        \A t \in FieldNameTokens, v \in ValueTokens :
            NamesField(t) => TakenAsValue(t, v)

\* The same for Field names made of one-byte characters.
C30_OneByteName ==
    pc = "loop" =>
        \A t \in FieldNameTokens, v \in ValueTokens :
            (NamesField(t) /\ \A i \in 1..Len(t) : Utf8Len(t[i]) = 1) => TakenAsValue(t, v)

\* On g the child keyword s after -e became the value of en: no descent, no
\* positional.
C30_KeywordValueWitness ==
    /\ result = "Ok"
    /\ consumed = <<kw_g, tok_e, kw_s>>
    /\ roles = <<"selector", "field", "value">>
    /\ action = <<kw_g>>
    /\ request.fields[t_en] = Some(<<"s">>)
    /\ request.arguments = <<>>

\* On g the flag name -v after --en was taken as the value of en and refused
\* by the predicate of en; it set no flag.
C30_DashValueWitness ==
    /\ pc = "done" /\ result = "Err"
    /\ consumed = <<kw_g, tok_en, tok_v>>
    /\ roles = <<"selector", "field", "value">>

\* On s the token after the short of ua, a two-byte character, was classified
\* itself, as the positional.
C30_TwoByteNameWitness ==
    /\ result = "Ok"
    /\ action = <<kw_s>>
    /\ consumed = <<kw_s, tok_ua, kw_g>>
    /\ roles = <<"selector", "flags", "argument">>
    /\ request.fields[t_ua] = None
    /\ request.arguments = <<kw_g>>

(***************************************************************************)
(* C31: a token changes only what it names.                                *)
(***************************************************************************)
\* The unescaped token the step being taken classifies.
StepValue == escape(consumed'[Len(consumed) + 1])

\* The titles of the Flags of the Action a that the option `value` names: by
\* title or short for a single name, by the characters of a combined group.
NamedFlagTitles(a, value) ==
    LET names == IF IsGroup(value) THEN {<<value[i]>> : i \in 2..Len(value)}
                 ELSE {Stripped(value)}
    IN {f.title : f \in {g \in Values(a.flags) :
                            \E n \in names : n = g.title \/ g.short = Some(n[1])}}

\* The same for the Fields.
NamedFieldTitles(a, value) ==
    LET n == Stripped(value)
    IN {f.title : f \in {g \in Values(a.fields) : n = g.title \/ g.short = Some(n[1])}}

\* The two maps agree outside the keys given.
SameOutside(before, after, keys) ==
    /\ DOMAIN after = DOMAIN before
    /\ \A k \in DOMAIN before \ keys : after[k] = before[k]

\* A step that goes through leaves alone everything its token does not name.
FrameStep ==
    (pc = "loop" /\ StepTaken /\ result' # "Err" /\ StepRole # "child") =>
        LET a == Deref(action) IN
        /\ StepRole = "argument" =>
            /\ request'.arguments = Append(request.arguments, StepValue)
            /\ request'.fields = request.fields
            /\ request'.flags = request.flags
        /\ StepRole \in {"flag", "flags"} =>
            /\ request'.arguments = request.arguments
            /\ request'.fields = request.fields
            /\ SameOutside(request.flags, request'.flags, NamedFlagTitles(a, StepValue))
        /\ StepRole = "field" =>
            /\ request'.arguments = request.arguments
            /\ request'.flags = request.flags
            /\ SameOutside(request.fields, request'.fields, NamedFieldTitles(a, StepValue))
            /\ Cardinality(NamedFieldTitles(a, StepValue)) = 1

\* C31: processing one token changes only the part of the Request that the
\* token names: a flag token changes only that flag's entry, a field
\* name/value pair changes only that field's entry, and a positional token
\* only appends one value to the arguments; every other flag, every other
\* field and all previously collected arguments are unchanged.
C31_Frame == [][FrameStep]_vars

\* The same for the tokens made of one-byte characters.
C31_OneByteFrame ==
    [][(StepTaken /\ \A i \in 1..Len(StepValue) : Utf8Len(StepValue[i]) = 1)
            => FrameStep]_vars

\* On g s a positional, the Flag vb and a second positional were taken in
\* turn; the Request holds both positionals and the Flag.
C31_OneByteWitness ==
    /\ result = "Ok"
    /\ consumed = <<kw_g, kw_s, tok_bs_n, tok_v, kw_g>>
    /\ request.arguments = <<escape(tok_bs_n), kw_g>>
    /\ request.flags[t_vb]

\* On s the token -U+00FC, which names the Field ua by its short, set the
\* Flag rc.
C31_TwoByteWitness ==
    /\ pc = "loop"
    /\ consumed = <<kw_s, tok_ua>>
    /\ request.flags[t_rc]
    /\ request.fields[t_ua] = None

(***************************************************************************)
(* C32: a short after two dashes.                                          *)
(***************************************************************************)
\* One-character names: shorts of Flags and of Fields of the registry, and a
\* character declared nowhere.
ShortNames == {"v", "f", "e", "z"}

\* The character c is declared on the Action a as a short and is the title of
\* nothing.
OnlyShort(a, c) ==
    /\ <<c>> \in ShortKeys(a)
    /\ <<c>> \notin FieldTitles(a) \cup FlagTitles(a)

\* C32: after `--` a name is matched against titles only: the token `--c`,
\* where c is declared only as the one-character short alias of a Flag or
\* Field and is not the title of any Flag or Field, does not set that Flag or
\* Field, and the parse fails.
C32_LongFormTitlesOnly ==
    pc = "loop" =>
        \A c \in ShortNames, following \in Followings :
            OnlyShort(Deref(action), c) =>
                parse_token(St, <<HYPHEN, HYPHEN, c>>, following).st.status = "Err"

\* What the resolver does: `--c` is handled exactly as `-c`.
C32_LongFormAsShort ==
    pc = "loop" =>
        \A c \in ShortNames, following \in Followings :
            parse_token(St, <<HYPHEN, HYPHEN, c>>, following)
                = parse_token(St, <<HYPHEN, c>>, following)

\* The position after the selector g, where v is the short of the Flag vb:
\* from there --v sets vb.
C32_ShortSetWitness ==
    /\ pc = "loop"
    /\ consumed = <<kw_g>>
    /\ OnlyShort(Deref(action), "v")
    /\ LET step == parse_token(St, <<HYPHEN, HYPHEN, "v">>, None) IN
        /\ step.st.status = "run"
        /\ step.st.request.flags[t_vb]

(***************************************************************************)
(* C33: parses over one registry are independent.                          *)
(***************************************************************************)
\* No step of a parse writes the registry.
RegistryKept == cherry' = cherry

\* What each parse returned is what Cherry::parse returns on its tokens when
\* it runs alone.
AsAlone ==
    /\ pc = "done" =>
        LET r == parse(consumed) IN
        result = r.status /\ request = r.request /\ action = r.action
    /\ peer.pc = "done" =>
        LET r == parse(peer.consumed) IN
        peer.result = r.status /\ peer.request = r.request /\ peer.action = r.action

\* Two parses of the same tokens returned equal results.
SameTokensSameResult ==
    (pc = "done" /\ peer.pc = "done" /\ consumed = peer.consumed) =>
        result = peer.result /\ request = peer.request

C33_MixedWitness ==
    /\ pc = "done" /\ result = "Err" /\ consumed = <<kw_s, tok_v>>
    /\ peer.pc = "loop" /\ peer.consumed = <<kw_g, kw_s, tok_bs_n>>
    /\ peer.request.arguments = <<escape(tok_bs_n)>>

(***************************************************************************)
(* C34: a descent discards nothing.                                        *)
(***************************************************************************)
\* The step being taken descends into a child Action: the Request it
\* replaces is the fresh Request of the parent, every token before it was the
\* selector or a child keyword, and the Request it leaves is the fresh
\* Request of the child.
DescentStep ==
    (pc = "loop" /\ StepTaken /\ StepRole = "child") =>
        /\ action' = action \o <<StepValue>>
        /\ request = Request_new(action)
        /\ request.arguments = <<>>
        /\ \A i \in 1..Len(roles) : roles[i] \in {"selector", "child"}
        /\ request' = Request_new(action')
        /\ result' = "none"

\* The Action changes in no other step of the loop.
NoOtherDescent ==
    (pc = "loop" /\ result' # "Err" /\ ~(StepTaken /\ StepRole = "child")) =>
        action' = action

\* C34: whenever parse descends into a child Action and re-creates the
\* Request, the Request being replaced holds no collected data (no
\* arguments, every flag false, every field at its default): no value parsed
\* from the input is ever discarded by a descent, and the Request after the
\* descent equals a fresh Request of the child.
C34_DescentDiscardsNothing == [][DescentStep /\ NoOtherDescent]_vars

\* C34 witness: the parse descended from g to g s and on to g s s, and holds
\* the fresh Request of g s s.
C34_Witness ==
    /\ pc = "loop"
    /\ consumed = <<kw_g, kw_s, kw_s>>
    /\ roles = <<"selector", "child", "child">>
    /\ action = <<kw_g, kw_s, kw_s>>
    /\ request = Request_new(action)

\* After a Flag on g the child keyword s was not a descent: the Flag is kept
\* and the parse failed on s as a positional of g.
C34_NoDescentWitness ==
    /\ pc = "done" /\ result = "Err"
    /\ consumed = <<kw_g, tok_v, kw_s>>
    /\ roles = <<"selector", "flag", "argument">>

(***************************************************************************)
(* C35: no positional begins with a hyphen.                                *)
(***************************************************************************)
\* No positional value of the Request begins with a hyphen.
NoDashArgument ==
    (pc \in {"loop", "done"} /\ result # "Err") =>
        \A i \in 1..Len(request.arguments) :
            ~StartsWith(request.arguments[i], <<HYPHEN>>)

\* The tokens of the model that begin with a hyphen.
DashTokens == {t \in Tokens : StartsWith(t, <<HYPHEN>>)}

\* From the current position a token with its leading hyphen escaped is
\* handled as the token itself, and not as a positional.
EscapedDashAsOption ==
    pc = "loop" =>
        \A t \in DashTokens, following \in Followings :
            LET step == parse_token(St, <<BACKSLASH>> \o t, following) IN
            /\ step = parse_token(St, t, following)
            /\ step.role \in {"flag", "flags", "field"}

\* C35: in every Request returned by Cherry::parse, no positional argument
\* value begins with `-`: tokens are unescaped before they are classified, so
\* a token whose leading hyphen is escaped with a backslash is classified as
\* an option exactly like the unescaped token, never as a positional argument.
C35_NoDashPositional == NoDashArgument /\ EscapedDashAsOption

\* C35 witness: on g s, which takes positionals, the token \-v set the Flag
\* vb and left the arguments as they were.
C35_Witness ==
    /\ pc = "loop"
    /\ consumed = <<kw_g, kw_s, tok_bs_n, tok_esc_v>>
    /\ roles = <<"selector", "child", "argument", "flag">>
    /\ request.flags[t_vb]
    /\ request.arguments = <<escape(tok_bs_n)>>

(***************************************************************************)
(* C36: a bare hyphen or double hyphen.                                    *)
(***************************************************************************)
\* Tokens that are `-` or `--` once unescaped.
BareDashes ==
    {tok_dash, <<HYPHEN, HYPHEN>>, <<BACKSLASH, HYPHEN>>, <<BACKSLASH, HYPHEN, HYPHEN>>,
     <<BACKSLASH, HYPHEN, BACKSLASH, HYPHEN>>}

\* From the current position, where the next token is classified, a bare
\* dash fails the parse, whatever follows it.
BareDashFails ==
    pc = "loop" =>
        \A t \in BareDashes, following \in Followings :
            LET step == parse_token(St, t, following) IN
            /\ escape(t) \in {<<HYPHEN>>, <<HYPHEN, HYPHEN>>}
            /\ step.st.status = "Err"
            /\ step.role = "field"

\* No bare dash is ever a positional or a flag of a parse that goes on.
BareDashStep ==
    (pc = "loop" /\ StepTaken /\ StepValue \in {<<HYPHEN>>, <<HYPHEN, HYPHEN>>}) =>
        /\ StepRole = "field"
        /\ result' = "Err"

\* C36: a token that, after unescaping, is exactly `-` or exactly `--`, and
\* that is neither consumed as a field value nor matched as a child keyword,
\* always makes parse return Err (with or without a following token); it is
\* never accepted as a positional argument and never sets a flag.
C36_BareDash == [](BareDashFails) /\ [][BareDashStep]_vars

\* C36 witness: on g s, which takes positionals, the token - followed by
\* another token failed the parse.
C36_Witness ==
    /\ pc = "done" /\ result = "Err"
    /\ consumed = <<kw_g, kw_s, tok_dash, tok_bs_n>>
    /\ roles = <<"selector", "child", "field", "value">>

\* The token - as the last token.
C36_LastWitness ==
    /\ pc = "done" /\ result = "Err"
    /\ consumed = <<kw_s, tok_dash>>
    /\ roles = <<"selector", "field">>

(***************************************************************************)
(* C37: a backslash at the end of the input.                               *)
(***************************************************************************)
\* The iteration being taken reads a backslash and finds the input ended:
\* parse_str returns Err there, parse is not called, and parse_str on the
\* whole input is Err.
LastBackslashStep ==
    (scan_pc = "scan" /\ ScanTaken /\ ScanCharacter = BACKSLASH
        /\ Len(scanned') = Len(scanned) + 1) =>
            /\ scan_pc' = "done"
            /\ result' = "Err"
            /\ request' = NoRequest /\ action' = NoAction /\ pc' = "off"
            /\ parse_str(scanned').status = "Err"

\* C37: parse_str returns Err when the input ends with a backslash that has
\* no following character to pair with (an unpaired trailing backslash),
\* inside or outside a quote, before any token is handed to the resolver.
C37_LastBackslash == [][LastBackslashStep]_vars

\* C37 witness: the input g s\ ended with a backslash outside a quote, a
\* complete token before it; Err, and no Request.
C37_Witness ==
    /\ scan_pc = "done" /\ result = "Err"
    /\ scanned = <<"g", SPACE, "s", BACKSLASH>>
    /\ request = NoRequest

\* The same inside a quote, and after a pair of backslashes.
C37_QuotedWitness ==
    /\ scan_pc = "done" /\ result = "Err"
    /\ scanned = <<"g", SPACE, SQUOTE, "s", BACKSLASH>>

C37_AfterPairWitness ==
    /\ scan_pc = "done" /\ result = "Err"
    /\ scanned = <<"g", BACKSLASH, BACKSLASH, BACKSLASH>>

(***************************************************************************)
(* C38: parse_str and parse agree on plain input.                          *)
(***************************************************************************)
\* The string holds no quote character and no backslash.
Plain(s) == \A i \in 1..Len(s) : s[i] \notin {SQUOTE, DQUOTE, BACKSLASH}

\* The maximal runs of non-whitespace characters of s, in order; `run` is the
\* run being read.
RECURSIVE RunsFrom(_, _)
RunsFrom(s, run) ==
    IF s = <<>> THEN (IF run = <<>> THEN <<>> ELSE <<run>>)
    ELSE IF Head(s) = SPACE
         THEN (IF run = <<>> THEN <<>> ELSE <<run>>) \o RunsFrom(Tail(s), <<>>)
         ELSE RunsFrom(Tail(s), Append(run, Head(s)))

Runs(s) == RunsFrom(s, <<>>)

\* On plain input the scan never fails, the tokens collected and the buffer
\* are the runs read so far, and parse_str returns what parse returns on the
\* runs.
PlainAgrees ==
    Plain(scanned) =>
        /\ scan_pc = "scan" =>
            (IF build = <<>> THEN parts ELSE Append(parts, build)) = Runs(scanned)
        /\ scan_pc = "done" =>
            /\ parts = Runs(scanned)
            /\ result = parse(Runs(scanned)).status
            /\ request = parse(Runs(scanned)).request
        /\ parse_str(scanned) = parse(Runs(scanned))

\* Plain commands with options in them: g -v, g  -vf, g --en s, s - g and
\* g s n -v g with blanks around them.
PlainSamples ==
    {<<"g", SPACE, HYPHEN, "v">>,
     <<"g", SPACE, SPACE, HYPHEN, "v", "f", SPACE>>,
     <<"g", SPACE, HYPHEN, HYPHEN, "e", "n", SPACE, "s">>,
     <<"s", SPACE, HYPHEN, SPACE, "g">>,
     <<SPACE, "g", SPACE, "s", SPACE, "n", SPACE, SPACE, HYPHEN, "v", SPACE, "g", SPACE>>}

\* On these too parse_str returns what parse returns on the runs.
PlainSamplesAgree ==
    \A s \in PlainSamples :
        /\ Plain(s)
        /\ scan_loop(ScanStart, s).parts = Runs(s)
        /\ parse_str(s) = parse(Runs(s))

\* C38: for every raw string that contains no quote character and no
\* backslash, parse_str(s) returns the same result as parse applied to the
\* sequence of maximal non-whitespace runs of s taken in order: the string
\* entry point and the iterator entry point agree on plain input.
C38_PlainInput == PlainAgrees /\ (scanned = <<>> => PlainSamplesAgree)

\* C38 witness: the plain string "s  g " went to parse as the tokens s and g
\* and returned Ok with g as the argument.
C38_Witness ==
    /\ scan_pc = "done"
    /\ scanned = <<"s", SPACE, SPACE, "g", SPACE>>
    /\ parts = <<kw_s, kw_g>>
    /\ result = "Ok"
    /\ request = parse(<<kw_s, kw_g>>).request
    /\ request.arguments = <<kw_g>>

(***************************************************************************)
(* C39: the keys of has_* and get_*.                                       *)
(***************************************************************************)
\* The shorts of the Flags and of the Fields declared on an Action, as keys.
FlagShorts(a) ==
    {<<Unwrap(a.flags[k].short)>> : k \in {j \in DOMAIN a.flags : a.flags[j].short # None}}

FieldShorts(a) ==
    {<<Unwrap(a.fields[k].short)>> : k \in {j \in DOMAIN a.fields : a.fields[j].short # None}}

\* The keys a caller may ask a Request about: every title and short of the
\* registry, a title and a character declared nowhere, the empty string.
ProbeKeys ==
    {t_vb, t_fo, t_ec, t_en, t_ua, t_nm, t_rc,
     <<"v">>, <<"f">>, <<"e">>, <<E_ACUTE>>, <<U_UMLAUT>>, <<REPLACEMENT>>,
     <<"z", "z">>, <<"z">>, <<>>}

\* What has_* and get_* answer on the Request of a running or returned parse.
KeysAnswered ==
    (pc \in {"loop", "done"} /\ result # "Err") =>
        LET a == Deref(request.action) IN
        \A k \in ProbeKeys :
            /\ has_flag(request, k) <=> k \in FlagTitles(a) \cup FlagShorts(a)
            /\ has_field(request, k) <=> k \in FieldTitles(a) \cup FieldShorts(a)
            /\ get_flag(request, k) # None <=> k \in FlagTitles(a)
            /\ k \in FlagTitles(a) => get_flag(request, k) = Some(request.flags[k])
            /\ get_field(request, k) # None <=>
                    (k \in FieldTitles(a) /\ request.fields[k] # None)
            /\ k \in FlagShorts(a) \ FlagTitles(a) =>
                    (has_flag(request, k) /\ get_flag(request, k) = None)
            /\ k \in FieldShorts(a) \ FieldTitles(a) =>
                    (has_field(request, k) /\ get_field(request, k) = None)

\* C39: Request::has_flag(k) and has_field(k) are true exactly when k is a
\* declared title or a declared short alias on the bound Action, while
\* get_flag(k) and get_field(k) return a value only when k is a declared
\* title (for fields, only when a value or default is present): for a key k
\* that is only a short alias, has_* is true and get_* is None.
C39_HasAndGet == KeysAnswered

\* C39 witness: the Request returned for g -v -e s.  The short v answers
\* has_flag and not get_flag, the title vb holds true; the short e answers
\* has_field and not get_field, the title en holds the value; the Field ua,
\* without default and not named, answers has_field and not get_field.
C39_Witness ==
    /\ result = "Ok"
    /\ consumed = <<kw_g, tok_v, tok_e, kw_s>>
    /\ has_flag(request, <<"v">>) /\ get_flag(request, <<"v">>) = None
    /\ get_flag(request, t_vb) = Some(TRUE)
    /\ get_flag(request, t_fo) = Some(FALSE)
    /\ has_field(request, <<"e">>) /\ get_field(request, <<"e">>) = None
    /\ get_field(request, t_en) = Some(<<"s">>)
    /\ has_field(request, t_ua) /\ get_field(request, t_ua) = None

====
